---- MODULE Spec2Model ----
(***************************************************************************)
(* Model of the bulk download engine of download_epstein_files.py:         *)
(* main (work-set computation, batch loop, checkpointing),                 *)
(* download_batch, download_file_with_retry (the retry/backoff state       *)
(* machine), RateLimiter, ProxyPool, load_checkpoint / save_checkpoint    *)
(* and get_downloaded_files.                                               *)
(*                                                                         *)
(* The tasks of a batch are asyncio coroutines: a task runs without        *)
(* interruption between two suspension points.  Each worker action below   *)
(* is the code between two suspension points (a contended semaphore or     *)
(* lock, the network call, a sleep).  Locks that are never held across an  *)
(* await (DownloadStats.lock, ProxyPool._lock) are never contended, so the *)
(* calls they guard are part of the caller's step.                         *)
(***************************************************************************)
EXTENDS Integers, Sequences, FiniteSets, TLC

(***************************************************************************)
(* Bounds of the model.                                                    *)
(***************************************************************************)
MaxNum == 3          \* file numbers are 1..MaxNum
MaxRuns == 2         \* invocations of the script that are followed
MaxFaults == 2       \* network calls that do not end in the download of a
                     \* non-empty body, over all runs

(***************************************************************************)
(* Program constants.  MAX_CONCURRENT, MAX_RETRIES, REQUESTS_PER_SECOND,   *)
(* batch_size and PROXY_CHUNK_SIZE are scaled down from 30, 5, 20, 5000    *)
(* and 50; the others keep the values of the source.  As in the source, a  *)
(* batch holds more tasks than there are concurrency slots.                *)
(***************************************************************************)
MAX_CONCURRENT == 1
MAX_RETRIES == 2
INITIAL_BACKOFF == 1
MAX_BACKOFF == 60
RATE_LIMIT_PAUSE == 30
REQUESTS_PER_SECOND == 1
batch_size == 2
PROXY_CHUNK_SIZE == 1
NameWidth == 8       \* the 08d of get_filename

Nums == 1..MaxNum

\* The (start, end) arguments followed: every range that ends at MaxNum.
Ranges == {<<s, MaxNum>> : s \in Nums}

\* Advances of time.monotonic() between two acquire calls, in seconds.
Elapsed == {0, 1}

\* Lengths of a response body, in bytes.
BodyLengths == {0, 2}
None == 0            \* Python's None for a proxy; proxies are 1, 2, ...

Min(a, b) == IF a < b THEN a ELSE b

Range(s) == {s[k] : k \in DOMAIN s}

\* f"{num:08d}": at least NameWidth decimal digits, zero padded.  The
\* "EFTA" prefix and ".pdf" suffix are the same for every name and left out.
RECURSIVE DecimalDigits(_)
DecimalDigits(num) ==
    IF num < 10 THEN <<num>> ELSE Append(DecimalDigits(num \div 10), num % 10)

get_filename(num) ==
    LET d == DecimalDigits(num)
    IN  IF Len(d) >= NameWidth THEN d
        ELSE [k \in 1..(NameWidth - Len(d)) |-> 0] \o d

\* int(text) of a string of decimal digits.
RECURSIVE ParseInt(_)
ParseInt(d) ==
    IF Len(d) = 0 THEN 0
    ELSE 10 * ParseInt(SubSeq(d, 1, Len(d) - 1)) + d[Len(d)]

\* list(a_set): the elements in an order fixed by the set, unknown to the caller.
list(S) ==
    CHOOSE s \in [1..Cardinality(S) -> S] : Range(s) = S

\* sorted(a_list)
RECURSIVE sorted(_)
sorted(s) ==
    IF Len(s) = 0 THEN <<>>
    ELSE LET k == CHOOSE k \in DOMAIN s : \A j \in DOMAIN s : s[k] <= s[j]
         IN  <<s[k]>> \o sorted(SubSeq(s, 1, k - 1) \o SubSeq(s, k + 1, Len(s)))

\* json.dump / json.load of a list of ints: each int as its decimal text.
JsonDumpList(s) == [k \in DOMAIN s |-> DecimalDigits(s[k])]
JsonLoadList(t) == [k \in DOMAIN t |-> ParseInt(t[k])]

VARIABLES
    \* the process
    run,             \* number of the current invocation
    mainPc,          \* position of main: "start", "loaded", "loop", "batch", "done";
                     \* "crashed" when the process was killed, "off" when the
                     \* downloader is not the program that runs
    start_num, end_num,
    checkpoint,      \* the dict returned by load_checkpoint
    to_download,     \* list
    i,               \* offset of the current batch in to_download
    completed,       \* set
    failed,          \* list
    not_found,       \* list
    stats,           \* DownloadStats
    \* the file system
    ckptFile,        \* CHECKPOINT_FILE
    disk,            \* OUTPUT_DIR: file name -> size
    failedFile,      \* FAILED_FILE
    proxyFile,       \* PROXY_FILE: the proxy lines
    credentials,     \* the mandatory credentials are there: the required cookie
                     \* of COOKIES, the BunnyCDN settings of scripts/config.py
    \* ProxyPool
    all_proxies, chunk_size, num_chunks, current_chunk_index, counter,
    \* per batch: asyncio.Semaphore and RateLimiter
    semaphore,       \* Semaphore._value
    tokens,          \* RateLimiter.tokens
    rlLock,          \* holder of RateLimiter.lock, or None
    \* per task of the batch (download_file_with_retry)
    wpc,             \* "idle", "sem", "rate", "ratesleep", "wait", "pause",
                     \* "backoff", "done"
    attempt,         \* loop variable of "for attempt in range(MAX_RETRIES)"
    backoff,
    proxy,
    result,          \* the returned tuple, [status, msg]; status "raised" for
                     \* a task that ended with an exception
    finished,        \* the tasks of the batch that have ended, in the order in
                     \* which they ended
    \* observation of the run, not read by the program
    requests,        \* network calls issued by the task
    resp,            \* what the last network call of the task gave
    sleepDur,        \* duration of the last backoff sleep of the task
    backoffs,        \* sleeps of the task so far that were followed by the
                     \* doubling of backoff
    only503,         \* every network call of the task gave 503
    dispatched,      \* numbers handed to download_batch in this run
    disk0,           \* OUTPUT_DIR as it was when main started
    saves,           \* save_checkpoint calls of this run
    faults,          \* network calls so far that did not end in such a download
    lastSaved,       \* arguments of the last save_checkpoint call
    prevRun,         \* how the previous invocation ended, kept until main has
                     \* computed to_download; and the numbers that the
                     \* save_checkpoint calls so far were given as not found
    payload,         \* file number -> length of the body of its last 200 response
    \* RateLimiter followed against the clock
    rate,            \* RateLimiter.rate
    now,             \* time.monotonic(), in units of 1/rate second
    last_update,     \* RateLimiter.last_update
    lpc,             \* per caller of acquire: "idle", "sleep", "out"
    wakeAt,          \* when the asyncio.sleep of acquire is due
    admitted,        \* the times at which acquire returned
    \* ProxyPool followed call by call
    poolOp,          \* the last ProxyPool call: "init", "advance", "get"
    served,          \* what get_proxy returned since the last advance_chunk
    \* the uploader (scripts/upload_to_cdn.py)
    images,          \* the local paths found under EXTRACTED_IMAGES
    tracking,        \* the uploads table: local_path -> row
    files,           \* the work list of the uploader's main
    uI,              \* offset of the current batch in files
    uMainPc,         \* position of the uploader's main: "start", "loop", "batch",
                     \* "done"; "off" when the uploader is not the program that runs
    uSemaphore,      \* Semaphore._value of upload_batch
    upc,             \* per upload_file task: "idle", "sem", "put", "sleep", "done"
    retry,           \* loop variable of "for retry in range(config.MAX_RETRIES)"
    uResult,         \* the UploadResult returned by the task
    uRaisedOnly      \* observation: every attempt of the task so far has ended
                     \* with an exception; followed up to the return of a task
                     \* that gave up on an exception

mainVars == <<run, mainPc, start_num, end_num, checkpoint, to_download, i,
              completed, failed, not_found>>
fileVars == <<ckptFile, disk, failedFile, proxyFile, credentials>>
poolVars == <<all_proxies, chunk_size, num_chunks, current_chunk_index, counter>>
batchVars == <<semaphore, tokens, rlLock>>
taskVars == <<wpc, attempt, backoff, proxy, result, finished>>
obsVars == <<requests, resp, sleepDur, backoffs, only503, dispatched, disk0, saves,
             faults, lastSaved, prevRun>>
limiterVars == <<rate, now, last_update, lpc, wakeAt, admitted>>
poolObsVars == <<poolOp, served>>
uploadVars == <<images, tracking, files, uI, uMainPc, uSemaphore, upc, retry,
                uResult, uRaisedOnly>>
\* What the download engine never touches, but for the payload written by a
\* task that got a 200.
otherVars == <<payload, limiterVars, poolObsVars, uploadVars>>
vars == <<mainVars, stats, fileVars, poolVars, batchVars, taskVars, obsVars,
          otherVars>>

(***************************************************************************)
(* Values a freshly started process holds before main assigns them.        *)
(***************************************************************************)
EmptyCheckpoint == [completed |-> <<>>, failed |-> <<>>, not_found |-> <<>>]
NoResult == [status |-> "none", msg |-> ""]
NewStats == [success |-> 0, failed |-> 0, skipped_404 |-> 0, retries |-> 0,
             bytes_downloaded |-> 0]

ProcessStart ==
    /\ mainPc = "start"
    /\ start_num = 0 /\ end_num = 0
    /\ checkpoint = EmptyCheckpoint
    /\ to_download = <<>> /\ i = 0
    /\ completed = {} /\ failed = <<>> /\ not_found = <<>>
    /\ stats = NewStats
    /\ all_proxies = <<>> /\ chunk_size = 0 /\ num_chunks = 0
    /\ current_chunk_index = 0 /\ counter = 0
    /\ semaphore = 0 /\ tokens = 0 /\ rlLock = None
    /\ wpc = [n \in Nums |-> "idle"]
    /\ attempt = [n \in Nums |-> 0]
    /\ backoff = [n \in Nums |-> 0]
    /\ proxy = [n \in Nums |-> None]
    /\ result = [n \in Nums |-> NoResult]
    /\ finished = <<>>
    /\ requests = [n \in Nums |-> 0]
    /\ resp = [n \in Nums |-> "none"]
    /\ sleepDur = [n \in Nums |-> 0]
    /\ backoffs = [n \in Nums |-> 0]
    /\ only503 = [n \in Nums |-> TRUE]
    /\ dispatched = {}
    /\ saves = 0

\* The proxy lines PROXY_FILE may hold.
ProxyFiles == {<<>>, <<1, 2>>}

\* No CHECKPOINT_FILE, and the file as open(CHECKPOINT_FILE, 'w') leaves it
\* before json.dump has written anything.
NoFile == [exists |-> FALSE, complete |-> FALSE, completed |-> <<>>,
           failed |-> <<>>, not_found |-> <<>>]
Truncated == [exists |-> TRUE, complete |-> FALSE, completed |-> <<>>,
              failed |-> <<>>, not_found |-> <<>>]

\* No response body seen yet for a file number.
NoPayload == -1

\* No previous invocation.
NoPrevRun == [ended |-> FALSE, range |-> <<0, 0>>, failed |-> {}, absent |-> {}]

\* The files and the ghosts of the download engine before its first run.
FreshDirectory ==
    /\ prevRun = NoPrevRun
    /\ ckptFile = NoFile
    /\ disk = <<>>
    /\ failedFile = <<>>
    /\ disk0 = <<>>
    /\ faults = 0
    /\ lastSaved = [saved |-> FALSE, completed |-> {}, failed |-> <<>>,
                    not_found |-> <<>>]
    /\ payload = [n \in Nums |-> NoPayload]

\* The callers of RateLimiter.acquire that are followed against the clock.
NumCallers == 3
Callers == 1..NumCallers

\* No RateLimiter followed against the clock.
LimiterIdle ==
    /\ rate = 0 /\ now = 0 /\ last_update = 0 /\ wakeAt = 0
    /\ lpc = [c \in Callers |-> "idle"]
    /\ admitted = <<>>

\* No ProxyPool followed call by call.
PoolIdle ==
    /\ poolOp = "init"
    /\ served = <<>>

\* The local paths of the uploader, and a path's row of the uploads table
\* (status "none": no row).
MaxFiles == 3
Files == 1..MaxFiles
NoRow == [status |-> "none", attempts |-> 0, last_error |-> ""]
NoUploadResult == [success |-> FALSE, error |-> "", attempts |-> 0]

\* The uploader is not running.
UploadIdle ==
    /\ images = {}
    /\ tracking = [f \in Files |-> NoRow]
    /\ files = <<>>
    /\ uI = 0
    /\ uMainPc = "off"
    /\ uSemaphore = 0
    /\ upc = [f \in Files |-> "idle"]
    /\ retry = [f \in Files |-> 0]
    /\ uResult = [f \in Files |-> NoUploadResult]
    /\ uRaisedOnly = [f \in Files |-> TRUE]

\* The downloader is started in a fresh directory.
DownloadInit ==
    /\ run = 1
    /\ ProcessStart
    /\ LimiterIdle
    /\ PoolIdle
    /\ UploadIdle
    /\ FreshDirectory
    /\ proxyFile \in ProxyFiles

Init ==
    /\ DownloadInit
    /\ credentials = TRUE

(***************************************************************************)
(* Checkpoint file and output directory.                                   *)
(***************************************************************************)
\* A load_checkpoint that never finds a checkpoint.
load_checkpoint_Empty == EmptyCheckpoint

\* json.load raises on a text that is not a complete JSON document, and the
\* bare except falls through to the empty dict.
load_checkpoint ==
    IF ckptFile.exists /\ ckptFile.complete
    THEN [completed |-> JsonLoadList(ckptFile.completed),
          failed |-> JsonLoadList(ckptFile.failed),
          not_found |-> JsonLoadList(ckptFile.not_found)]
    ELSE EmptyCheckpoint

\* save_checkpoint with the failed and not_found lists exchanged.
save_checkpoint_Swapped(c, f, nf) ==
    [exists |-> TRUE, complete |-> TRUE,
     completed |-> JsonDumpList(list(c)),
     failed |-> JsonDumpList(nf),
     not_found |-> JsonDumpList(f)]

save_checkpoint(c, f, nf) ==
    [exists |-> TRUE, complete |-> TRUE,
     completed |-> JsonDumpList(list(c)),
     failed |-> JsonDumpList(f),
     not_found |-> JsonDumpList(nf)]

\* get_downloaded_files without the st_size test.
get_downloaded_files_AnySize ==
    {ParseInt(f) : f \in DOMAIN disk}

get_downloaded_files ==
    {ParseInt(f) : f \in {g \in DOMAIN disk : disk[g] > 0}}

\* open(filepath, 'wb') followed by a write that stores size bytes.
WriteFile(d, name, size) ==
    [f \in (DOMAIN d) \cup {name} |-> IF f = name THEN size ELSE d[f]]

(***************************************************************************)
(* ProxyPool                                                               *)
(***************************************************************************)
Shuffles(s) ==
    {t \in [DOMAIN s -> Range(s)] : Range(t) = Range(s)}

has_proxies == Len(all_proxies) > 0

_get_current_chunk ==
    LET start == current_chunk_index * chunk_size
        end == Min(start + chunk_size, Len(all_proxies))
    IN  SubSeq(all_proxies, start + 1, end)

\* ProxyPool.__init__ with the quotient rounded down.
num_chunks_of_Floor(proxies, size) ==
    IF Len(proxies) > 0 THEN Len(proxies) \div size ELSE 0

\* num_chunks as ProxyPool.__init__ computes it.
num_chunks_of(proxies, size) ==
    IF Len(proxies) > 0 THEN (Len(proxies) + size - 1) \div size ELSE 0

\* advance_chunk that leaves the counter as it is.
advance_chunk_KeepCounter ==
    IF ~has_proxies
    THEN UNCHANGED <<current_chunk_index, counter>>
    ELSE /\ current_chunk_index' = (current_chunk_index + 1) % num_chunks
         /\ UNCHANGED counter

\* advance_chunk that does not wrap around.
advance_chunk_NoWrap ==
    IF ~has_proxies
    THEN UNCHANGED <<current_chunk_index, counter>>
    ELSE /\ current_chunk_index' = current_chunk_index + 1
         /\ counter' = 0

advance_chunk ==
    IF ~has_proxies
    THEN UNCHANGED <<current_chunk_index, counter>>
    ELSE /\ current_chunk_index' = (current_chunk_index + 1) % num_chunks
         /\ counter' = 0

\* What get_proxy gives when "self._counter % len(chunk)" raises
\* ZeroDivisionError on an empty chunk.
Raised == -1

\* get_proxy that does not move the counter.
get_proxy_SameCounter ==
    IF ~has_proxies THEN [proxy |-> None, counter |-> counter]
    ELSE LET chunk == _get_current_chunk
         IN  IF Len(chunk) = 0 THEN [proxy |-> Raised, counter |-> counter]
             ELSE [proxy |-> chunk[(counter % Len(chunk)) + 1], counter |-> counter]

\* get_proxy: the proxy returned and the counter afterwards.
get_proxy ==
    IF ~has_proxies THEN [proxy |-> None, counter |-> counter]
    ELSE LET chunk == _get_current_chunk
         IN  IF Len(chunk) = 0 THEN [proxy |-> Raised, counter |-> counter]
             ELSE [proxy |-> chunk[(counter % Len(chunk)) + 1],
                   counter |-> counter + 1]

(***************************************************************************)
(* main                                                                    *)
(***************************************************************************)
total == Len(to_download)

Batch == SubSeq(to_download, i + 1, Min(i + batch_size, total))

\* main up to load_checkpoint, with a load_checkpoint that lets the exception
\* of json.load through: on a file without a document the process ends there.
Start_LoadRaises ==
    /\ mainPc = "start"
    /\ ~(ckptFile.exists /\ ~ckptFile.complete)
    /\ \E r \in Ranges :
          /\ start_num' = r[1]
          /\ end_num' = r[2]
    /\ \E shuffled \in Shuffles(proxyFile) :
          /\ all_proxies' = shuffled
          /\ chunk_size' = PROXY_CHUNK_SIZE
          /\ num_chunks' = num_chunks_of(shuffled, PROXY_CHUNK_SIZE)
    /\ checkpoint' = load_checkpoint
    /\ disk0' = disk
    /\ mainPc' = "loaded"
    /\ UNCHANGED <<run, to_download, i, completed, failed, not_found, stats,
                   fileVars, current_chunk_index, counter, batchVars, taskVars,
                   requests, resp, sleepDur, backoffs, only503, dispatched, saves,
                   faults, lastSaved, prevRun>>
    /\ UNCHANGED otherVars

\* validate_cookies(): the required cookie.  Nothing in the program calls it.
validate_cookies == credentials

\* main up to load_checkpoint: the arguments, ProxyPool(...), load_checkpoint().
\* COOKIES is not looked at on the way.
Start ==
    /\ mainPc = "start"
    /\ \E r \in Ranges :
          /\ start_num' = r[1]
          /\ end_num' = r[2]
    /\ \E shuffled \in Shuffles(proxyFile) :
          /\ all_proxies' = shuffled
          /\ chunk_size' = PROXY_CHUNK_SIZE
          /\ num_chunks' = num_chunks_of(shuffled, PROXY_CHUNK_SIZE)
    /\ checkpoint' = load_checkpoint
    /\ disk0' = disk
    /\ mainPc' = "loaded"
    /\ UNCHANGED <<run, to_download, i, completed, failed, not_found, stats,
                   fileVars, current_chunk_index, counter, batchVars, taskVars,
                   requests, resp, sleepDur, backoffs, only503, dispatched, saves,
                   faults, lastSaved, prevRun>>
    /\ UNCHANGED otherVars

\* Plan with completed taken from the checkpoint alone, without the files found
\* in the directory.
Plan_CheckpointOnly ==
    /\ mainPc = "loaded"
    /\ LET already_done == Range(checkpoint.completed) \cup get_downloaded_files
           todo == SelectSeq([k \in 1..(end_num - start_num + 1) |-> start_num + k - 1],
                             LAMBDA n : n \notin already_done)
       IN  /\ to_download' = todo
           /\ IF Len(todo) = 0
              THEN /\ mainPc' = "done"
                   /\ UNCHANGED completed
              ELSE /\ mainPc' = "loop"
                   /\ completed' = Range(checkpoint.completed)
    /\ prevRun' = [NoPrevRun EXCEPT !.absent = prevRun.absent]
    /\ UNCHANGED <<run, start_num, end_num, checkpoint, i, failed, not_found, stats,
                   fileVars, poolVars, batchVars, taskVars, requests, resp, sleepDur,
                   backoffs, only503, dispatched, disk0, saves, faults, lastSaved>>
    /\ UNCHANGED otherVars

\* main from the directory scan to the start of the batch loop.
Plan ==
    /\ mainPc = "loaded"
    /\ LET already_done == Range(checkpoint.completed) \cup get_downloaded_files
           todo == SelectSeq([k \in 1..(end_num - start_num + 1) |-> start_num + k - 1],
                             LAMBDA n : n \notin already_done)
       IN  /\ to_download' = todo
           /\ IF Len(todo) = 0
              THEN /\ mainPc' = "done"
                   /\ UNCHANGED completed
              ELSE /\ mainPc' = "loop"
                   /\ completed' = already_done
    /\ prevRun' = [NoPrevRun EXCEPT !.absent = prevRun.absent]
    /\ UNCHANGED <<run, start_num, end_num, checkpoint, i, failed, not_found, stats,
                   fileVars, poolVars, batchVars, taskVars, requests, resp, sleepDur,
                   backoffs, only503, dispatched, disk0, saves, faults, lastSaved>>
    /\ UNCHANGED otherVars

\* One iteration of the batch loop up to the gather of download_batch:
\* the slice, advance_chunk, the semaphore, the rate limiter, the tasks.
StartBatch ==
    /\ mainPc = "loop"
    /\ i < total
    /\ IF has_proxies
       THEN advance_chunk
       ELSE UNCHANGED <<current_chunk_index, counter>>
    /\ semaphore' = MAX_CONCURRENT
    /\ tokens' = REQUESTS_PER_SECOND
    /\ rlLock' = None
    /\ wpc' = [n \in Nums |-> IF n \in Range(Batch) THEN "sem" ELSE wpc[n]]
    /\ dispatched' = dispatched \cup Range(Batch)
    /\ mainPc' = "batch"
    /\ UNCHANGED <<run, start_num, end_num, checkpoint, to_download, i, completed,
                   failed, not_found, stats, fileVars, all_proxies, chunk_size,
                   num_chunks, attempt, backoff, proxy, result, finished, requests,
                   resp, sleepDur, backoffs, only503, disk0, saves, faults, lastSaved,
                   prevRun>>
    /\ UNCHANGED otherVars

\* The result loop without "completed.add(num)" in the not_found branch.
RECURSIVE ProcessResults_NotFoundOnly(_, _)
ProcessResults_NotFoundOnly(results, acc) ==
    IF Len(results) = 0 THEN acc
    ELSE LET r == Head(results)
             next ==
                IF r.status = "success"
                THEN [acc EXCEPT !.completed = @ \cup {r.num}]
                ELSE IF r.status = "not_found"
                THEN [acc EXCEPT !.not_found = Append(@, r.num)]
                ELSE [acc EXCEPT !.failed = Append(@, r.num)]
         IN  ProcessResults_NotFoundOnly(Tail(results), next)

\* The result loop with "completed.add(num)" moved out of the branches.
RECURSIVE ProcessResults_AddAll(_, _)
ProcessResults_AddAll(results, acc) ==
    IF Len(results) = 0 THEN acc
    ELSE LET r == Head(results)
             next ==
                IF r.status = "success"
                THEN [acc EXCEPT !.completed = @ \cup {r.num}]
                ELSE IF r.status = "not_found"
                THEN [acc EXCEPT !.not_found = Append(@, r.num),
                                 !.completed = @ \cup {r.num}]
                ELSE [acc EXCEPT !.failed = Append(@, r.num),
                                 !.completed = @ \cup {r.num}]
         IN  ProcessResults_AddAll(Tail(results), next)

\* "for num, status, msg in results" of main.
RECURSIVE ProcessResults(_, _)
ProcessResults(results, acc) ==
    IF Len(results) = 0 THEN acc
    ELSE LET r == Head(results)
             next ==
                IF r.status = "success"
                THEN [acc EXCEPT !.completed = @ \cup {r.num}]
                ELSE IF r.status = "not_found"
                THEN [acc EXCEPT !.not_found = Append(@, r.num),
                                 !.completed = @ \cup {r.num}]
                ELSE [acc EXCEPT !.failed = Append(@, r.num)]
         IN  ProcessResults(Tail(results), next)

\* A wait that returns when the first task has returned.
GatherDone_FirstCompleted == \E n \in Range(Batch) : wpc[n] = "done"

\* asyncio.gather returns once every task of the batch has returned.
GatherDone == \A n \in Range(Batch) : wpc[n] = "done"

\* A gather that hands the results over in the order in which the tasks ended.
Gathered_CompletionOrder == finished

\* asyncio.gather(*tasks, return_exceptions=True): position k holds what the
\* k-th task of the list returned or raised.  The task at each position.
Gathered == Batch

Raised_msg == "exception"

\* download_batch's result list: the tuple a task returned, which carries the
\* task's own num, or (nums[i], "failed", str(result)) for a task that raised.
Processed ==
    [k \in DOMAIN Batch |->
        LET task == Gathered[k]
        IN  IF result[task].status = "raised"
            THEN [num |-> Batch[k], status |-> "failed", msg |-> result[task].msg]
            ELSE [num |-> task, status |-> result[task].status,
                  msg |-> result[task].msg]]

CookieExpired == "Cookie expired - 302 redirect"

\* The rest of the iteration, with a run that stops at the first batch in
\* which a transfer reported the expired cookie.
FinishBatch_AbortOnExpired ==
    /\ mainPc = "batch"
    /\ GatherDone
    /\ LET new == ProcessResults(Processed,
                     [completed |-> completed, failed |-> failed,
                      not_found |-> not_found])
       IN  /\ completed' = new.completed
           /\ failed' = new.failed
           /\ not_found' = new.not_found
           /\ ckptFile' = save_checkpoint(new.completed, new.failed, new.not_found)
           /\ lastSaved' = [saved |-> TRUE, completed |-> new.completed,
                            failed |-> new.failed, not_found |-> new.not_found]
           /\ prevRun' = [prevRun EXCEPT !.absent = @ \cup Range(new.not_found)]
    /\ saves' = saves + 1
    /\ i' = i + batch_size
    /\ mainPc' = IF \E n \in Range(Batch) : result[n].msg = CookieExpired
                 THEN "done" ELSE "loop"
    /\ wpc' = [n \in Nums |-> IF n \in Range(Batch) THEN "idle" ELSE wpc[n]]
    /\ finished' = <<>>
    /\ requests' = [n \in Nums |-> IF n \in Range(Batch) THEN 0 ELSE requests[n]]
    /\ resp' = [n \in Nums |-> IF n \in Range(Batch) THEN "none" ELSE resp[n]]
    /\ sleepDur' = [n \in Nums |-> IF n \in Range(Batch) THEN 0 ELSE sleepDur[n]]
    /\ backoffs' = [n \in Nums |-> IF n \in Range(Batch) THEN 0 ELSE backoffs[n]]
    /\ only503' = [n \in Nums |-> IF n \in Range(Batch) THEN TRUE ELSE only503[n]]
    /\ UNCHANGED <<run, start_num, end_num, checkpoint, to_download, stats, disk,
                   failedFile, proxyFile, credentials, poolVars, batchVars, attempt,
                   backoff, proxy, result, dispatched, disk0, faults>>
    /\ UNCHANGED otherVars

\* The rest of the iteration: the results, save_checkpoint, the next offset.
FinishBatch ==
    /\ mainPc = "batch"
    /\ GatherDone
    /\ LET new == ProcessResults(Processed,
                     [completed |-> completed, failed |-> failed,
                      not_found |-> not_found])
       IN  /\ completed' = new.completed
           /\ failed' = new.failed
           /\ not_found' = new.not_found
           /\ ckptFile' = save_checkpoint(new.completed, new.failed, new.not_found)
           /\ lastSaved' = [saved |-> TRUE, completed |-> new.completed,
                            failed |-> new.failed, not_found |-> new.not_found]
           /\ prevRun' = [prevRun EXCEPT !.absent = @ \cup Range(new.not_found)]
    /\ saves' = saves + 1
    /\ i' = i + batch_size
    /\ mainPc' = "loop"
    /\ wpc' = [n \in Nums |-> IF n \in Range(Batch) THEN "idle" ELSE wpc[n]]
    /\ finished' = <<>>
    /\ requests' = [n \in Nums |-> IF n \in Range(Batch) THEN 0 ELSE requests[n]]
    /\ resp' = [n \in Nums |-> IF n \in Range(Batch) THEN "none" ELSE resp[n]]
    /\ sleepDur' = [n \in Nums |-> IF n \in Range(Batch) THEN 0 ELSE sleepDur[n]]
    /\ backoffs' = [n \in Nums |-> IF n \in Range(Batch) THEN 0 ELSE backoffs[n]]
    /\ only503' = [n \in Nums |-> IF n \in Range(Batch) THEN TRUE ELSE only503[n]]
    /\ UNCHANGED <<run, start_num, end_num, checkpoint, to_download, stats, disk,
                   failedFile, proxyFile, credentials, poolVars, batchVars, attempt,
                   backoff, proxy, result, dispatched, disk0, faults>>
    /\ UNCHANGED otherVars

\* After the loop: the final summary and FAILED_FILE.
EndRun ==
    /\ mainPc = "loop"
    /\ i >= total
    /\ failedFile' = IF Len(failed) > 0 THEN sorted(failed) ELSE failedFile
    /\ mainPc' = "done"
    /\ UNCHANGED <<run, start_num, end_num, checkpoint, to_download, i, completed,
                   failed, not_found, stats, ckptFile, disk, proxyFile, credentials,
                   poolVars, batchVars, taskVars, obsVars>>
    /\ UNCHANGED otherVars

\* The script is invoked again: a new process, the same files.
NewRun ==
    /\ mainPc \in {"done", "crashed"}
    /\ run < MaxRuns
    /\ run' = run + 1
    /\ mainPc' = "start"
    /\ start_num' = 0 /\ end_num' = 0
    /\ checkpoint' = EmptyCheckpoint
    /\ to_download' = <<>> /\ i' = 0
    /\ completed' = {} /\ failed' = <<>> /\ not_found' = <<>>
    /\ stats' = NewStats
    /\ all_proxies' = <<>> /\ chunk_size' = 0 /\ num_chunks' = 0
    /\ current_chunk_index' = 0 /\ counter' = 0
    /\ semaphore' = 0 /\ tokens' = 0 /\ rlLock' = None
    /\ wpc' = [n \in Nums |-> "idle"]
    /\ attempt' = [n \in Nums |-> 0]
    /\ backoff' = [n \in Nums |-> 0]
    /\ proxy' = [n \in Nums |-> None]
    /\ result' = [n \in Nums |-> NoResult]
    /\ finished' = <<>>
    /\ requests' = [n \in Nums |-> 0]
    /\ resp' = [n \in Nums |-> "none"]
    /\ sleepDur' = [n \in Nums |-> 0]
    /\ backoffs' = [n \in Nums |-> 0]
    /\ only503' = [n \in Nums |-> TRUE]
    /\ dispatched' = {}
    /\ saves' = 0
    /\ prevRun' = [ended |-> mainPc = "done",
                   range |-> <<start_num, end_num>>,
                   failed |-> Range(failed),
                   absent |-> prevRun.absent]
    /\ UNCHANGED <<fileVars, disk0, faults, lastSaved>>
    /\ UNCHANGED otherVars

(***************************************************************************)
(* download_file_with_retry(num), one task of the batch                    *)
(***************************************************************************)
\* The top of the loop body: get_proxy and session.get, which suspends.
BeginAttempt(n) ==
    /\ proxy' = [proxy EXCEPT ![n] = get_proxy.proxy]
    /\ counter' = get_proxy.counter
    /\ requests' = [requests EXCEPT ![n] = @ + 1]
    /\ resp' = [resp EXCEPT ![n] = "none"]
    /\ wpc' = [wpc EXCEPT ![n] = "wait"]
    /\ UNCHANGED finished

\* "async with semaphore"
SemAcquire(n) ==
    /\ wpc[n] = "sem"
    /\ semaphore > 0
    /\ semaphore' = semaphore - 1
    /\ wpc' = [wpc EXCEPT ![n] = "rate"]
    /\ UNCHANGED <<mainVars, stats, fileVars, poolVars, tokens, rlLock, attempt,
                   backoff, proxy, result, finished, obsVars>>
    /\ UNCHANGED otherVars

\* RateLimiter.acquire up to its sleep, or to the first network call when it
\* need not sleep.  elapsed is the advance of time.monotonic() since the
\* last call.
RateAcquire(n) ==
    /\ wpc[n] = "rate"
    /\ rlLock = None
    /\ \E elapsed \in Elapsed :
          LET refilled == Min(REQUESTS_PER_SECOND,
                              tokens + elapsed * REQUESTS_PER_SECOND)
          IN  IF refilled < 1
              THEN /\ tokens' = refilled
                   /\ rlLock' = n
                   /\ wpc' = [wpc EXCEPT ![n] = "ratesleep"]
                   /\ UNCHANGED <<attempt, backoff, proxy, counter, requests, resp,
                                  finished>>
              ELSE /\ tokens' = refilled - 1
                   /\ rlLock' = None
                   /\ attempt' = [attempt EXCEPT ![n] = 0]
                   /\ backoff' = [backoff EXCEPT ![n] = INITIAL_BACKOFF]
                   /\ BeginAttempt(n)
    /\ UNCHANGED <<mainVars, stats, fileVars, all_proxies, chunk_size, num_chunks,
                   current_chunk_index, semaphore, result, sleepDur, backoffs, only503,
                   dispatched, disk0, saves, faults, lastSaved, prevRun>>
    /\ UNCHANGED otherVars

\* The end of RateLimiter.acquire's sleep, then the first network call.
RateWake(n) ==
    /\ wpc[n] = "ratesleep"
    /\ tokens' = 0
    /\ rlLock' = None
    /\ attempt' = [attempt EXCEPT ![n] = 0]
    /\ backoff' = [backoff EXCEPT ![n] = INITIAL_BACKOFF]
    /\ BeginAttempt(n)
    /\ UNCHANGED <<mainVars, stats, fileVars, all_proxies, chunk_size, num_chunks,
                   current_chunk_index, semaphore, result, sleepDur, backoffs, only503,
                   dispatched, disk0, saves, faults, lastSaved, prevRun>>
    /\ UNCHANGED otherVars

\* A return statement: the tuple; the semaphore is released and the locals
\* of the coroutine are gone.
Return(n, status, msg) ==
    /\ result' = [result EXCEPT ![n] = [status |-> status, msg |-> msg]]
    /\ finished' = Append(finished, n)
    /\ semaphore' = semaphore + 1
    /\ attempt' = [attempt EXCEPT ![n] = 0]
    /\ backoff' = [backoff EXCEPT ![n] = 0]
    /\ proxy' = [proxy EXCEPT ![n] = None]
    /\ wpc' = [wpc EXCEPT ![n] = "done"]

\* The remote or the disk misbehaves, within the bound of the model.
Fault ==
    /\ faults < MaxFaults
    /\ faults' = faults + 1

\* A branch that sleeps before the next iteration: record_retry, asyncio.sleep.
Sleep(n, kind, seconds) ==
    /\ Fault
    /\ stats' = [stats EXCEPT !.retries = @ + 1]
    /\ sleepDur' = [sleepDur EXCEPT ![n] = seconds]
    /\ backoffs' = [backoffs EXCEPT ![n] = IF kind = "backoff" THEN @ + 1 ELSE @]
    /\ wpc' = [wpc EXCEPT ![n] = kind]
    /\ UNCHANGED finished

Observe(n, what) ==
    /\ resp' = [resp EXCEPT ![n] = what]
    /\ only503' = [only503 EXCEPT ![n] = @ /\ what = "503"]

\* status 200: the body is read and written to the file.  written < length is
\* a write that failed part-way, handled by "except Exception".
On200(n) ==
    /\ wpc[n] = "wait"
    /\ Observe(n, "200")
    /\ \E length \in BodyLengths : \E written \in 0..length :
          /\ disk' = WriteFile(disk, get_filename(n), written)
          /\ payload' = [payload EXCEPT ![n] = length]
          /\ IF written = length
             THEN /\ stats' = [stats EXCEPT !.success = @ + 1,
                                            !.bytes_downloaded = @ + length]
                  /\ Return(n, "success", "bytes")
                  /\ IF length > 0 THEN UNCHANGED faults ELSE Fault
                  /\ UNCHANGED <<sleepDur, backoffs>>
             ELSE /\ Sleep(n, "backoff", backoff[n])
                  /\ UNCHANGED <<result, semaphore, attempt, backoff, proxy>>
    /\ UNCHANGED <<mainVars, ckptFile, failedFile, proxyFile, credentials, poolVars,
                   tokens, rlLock, requests, dispatched, disk0, saves, lastSaved,
                   prevRun>>
    /\ UNCHANGED <<limiterVars, poolObsVars, uploadVars>>

\* A 404 handled like any other unexpected status.
On404_Retried(n) ==
    /\ wpc[n] = "wait"
    /\ Observe(n, "404")
    /\ Sleep(n, "backoff", backoff[n])
    /\ UNCHANGED <<mainVars, fileVars, poolVars, batchVars, attempt, backoff, proxy,
                   result, requests, dispatched, disk0, saves, lastSaved, prevRun>>
    /\ UNCHANGED otherVars

On404(n) ==
    /\ wpc[n] = "wait"
    /\ Observe(n, "404")
    /\ Fault
    /\ stats' = [stats EXCEPT !.skipped_404 = @ + 1]
    /\ Return(n, "not_found", "404")
    /\ UNCHANGED <<mainVars, fileVars, poolVars, tokens, rlLock, requests, sleepDur,
                   backoffs, dispatched, disk0, saves, lastSaved, prevRun>>
    /\ UNCHANGED otherVars

\* random.uniform(0, 5) and random.uniform(0, 2): the ends of the interval.
Jitter429 == {0, 5}
Jitter503 == {0, 2}

On429(n) ==
    /\ wpc[n] = "wait"
    /\ Observe(n, "429")
    /\ \E jitter \in Jitter429 : Sleep(n, "pause", RATE_LIMIT_PAUSE + jitter)
    /\ UNCHANGED <<mainVars, fileVars, poolVars, batchVars, attempt, backoff, proxy,
                   result, requests, dispatched, disk0, saves, lastSaved, prevRun>>
    /\ UNCHANGED otherVars

\* The 503 branch without record_retry.
On503_NoRecord(n) ==
    /\ wpc[n] = "wait"
    /\ Observe(n, "503")
    /\ Fault
    /\ \E jitter \in Jitter503 : sleepDur' = [sleepDur EXCEPT ![n] = backoff[n] + jitter]
    /\ backoffs' = [backoffs EXCEPT ![n] = @ + 1]
    /\ wpc' = [wpc EXCEPT ![n] = "backoff"]
    /\ UNCHANGED <<mainVars, stats, fileVars, poolVars, batchVars, attempt, backoff,
                   proxy, result, finished, requests, dispatched, disk0, saves,
                   lastSaved, prevRun>>
    /\ UNCHANGED otherVars

On503(n) ==
    /\ wpc[n] = "wait"
    /\ Observe(n, "503")
    /\ \E jitter \in Jitter503 : Sleep(n, "backoff", backoff[n] + jitter)
    /\ UNCHANGED <<mainVars, fileVars, poolVars, batchVars, attempt, backoff, proxy,
                   result, requests, dispatched, disk0, saves, lastSaved, prevRun>>
    /\ UNCHANGED otherVars

\* A 302 handled like any other unexpected status.
On302_Retried(n) ==
    /\ wpc[n] = "wait"
    /\ Observe(n, "302")
    /\ Sleep(n, "backoff", backoff[n])
    /\ UNCHANGED <<mainVars, fileVars, poolVars, batchVars, attempt, backoff, proxy,
                   result, requests, dispatched, disk0, saves, lastSaved, prevRun>>
    /\ UNCHANGED otherVars

On302(n) ==
    /\ wpc[n] = "wait"
    /\ Observe(n, "302")
    /\ Fault
    /\ Return(n, "failed", CookieExpired)
    /\ UNCHANGED <<mainVars, stats, fileVars, poolVars, tokens, rlLock, requests,
                   sleepDur, backoffs, dispatched, disk0, saves, lastSaved, prevRun>>
    /\ UNCHANGED otherVars

\* Any other status.
OnOtherStatus(n) ==
    /\ wpc[n] = "wait"
    /\ Observe(n, "other")
    /\ Sleep(n, "backoff", backoff[n])
    /\ UNCHANGED <<mainVars, fileVars, poolVars, batchVars, attempt, backoff, proxy,
                   result, requests, dispatched, disk0, saves, lastSaved, prevRun>>
    /\ UNCHANGED otherVars

\* asyncio.TimeoutError, aiohttp.ClientError or any other Exception raised by
\* the network call: three handlers with the same statements.
OnException(n) ==
    /\ wpc[n] = "wait"
    /\ Observe(n, "error")
    /\ Sleep(n, "backoff", backoff[n])
    /\ UNCHANGED <<mainVars, fileVars, poolVars, batchVars, attempt, backoff, proxy,
                   result, requests, dispatched, disk0, saves, lastSaved, prevRun>>
    /\ UNCHANGED otherVars

\* The end of a sleep, with a loop of MAX_RETRIES - 1 iterations.
Wake_OneShort(n) ==
    /\ wpc[n] \in {"pause", "backoff"}
    /\ IF attempt[n] + 1 < MAX_RETRIES - 1
       THEN /\ backoff' = [backoff EXCEPT ![n] =
                             IF wpc[n] = "backoff" THEN Min(@ * 2, MAX_BACKOFF) ELSE @]
            /\ attempt' = [attempt EXCEPT ![n] = @ + 1]
            /\ BeginAttempt(n)
            /\ UNCHANGED <<stats, result, semaphore>>
       ELSE /\ stats' = [stats EXCEPT !.failed = @ + 1]
            /\ Return(n, "failed", "Max retries exhausted")
            /\ UNCHANGED <<counter, requests, resp>>
    /\ UNCHANGED <<mainVars, fileVars, all_proxies, chunk_size, num_chunks,
                   current_chunk_index, tokens, rlLock, sleepDur, backoffs, only503,
                   dispatched, disk0, saves, faults, lastSaved, prevRun>>
    /\ UNCHANGED otherVars

\* The end of a sleep, with a pause after 429 that goes back to the same
\* iteration of the loop.
Wake_PauseNotCounted(n) ==
    /\ wpc[n] \in {"pause", "backoff"}
    /\ IF wpc[n] = "pause" \/ attempt[n] + 1 < MAX_RETRIES
       THEN /\ backoff' = [backoff EXCEPT ![n] =
                             IF wpc[n] = "backoff" THEN Min(@ * 2, MAX_BACKOFF) ELSE @]
            /\ attempt' = [attempt EXCEPT ![n] =
                             IF wpc[n] = "backoff" THEN @ + 1 ELSE @]
            /\ BeginAttempt(n)
            /\ UNCHANGED <<stats, result, semaphore>>
       ELSE /\ stats' = [stats EXCEPT !.failed = @ + 1]
            /\ Return(n, "failed", "Max retries exhausted")
            /\ UNCHANGED <<counter, requests, resp>>
    /\ UNCHANGED <<mainVars, fileVars, all_proxies, chunk_size, num_chunks,
                   current_chunk_index, tokens, rlLock, sleepDur, backoffs, only503,
                   dispatched, disk0, saves, faults, lastSaved, prevRun>>
    /\ UNCHANGED otherVars

\* The end of a sleep: the backoff is doubled (not after a 429), and the loop
\* goes to its next iteration or ends with "All retries exhausted".
Wake(n) ==
    /\ wpc[n] \in {"pause", "backoff"}
    /\ IF attempt[n] + 1 < MAX_RETRIES
       THEN /\ backoff' = [backoff EXCEPT ![n] =
                             IF wpc[n] = "backoff" THEN Min(@ * 2, MAX_BACKOFF) ELSE @]
            /\ attempt' = [attempt EXCEPT ![n] = @ + 1]
            /\ BeginAttempt(n)
            /\ UNCHANGED <<stats, result, semaphore>>
       ELSE /\ stats' = [stats EXCEPT !.failed = @ + 1]
            /\ Return(n, "failed", "Max retries exhausted")
            /\ UNCHANGED <<counter, requests, resp>>
    /\ UNCHANGED <<mainVars, fileVars, all_proxies, chunk_size, num_chunks,
                   current_chunk_index, tokens, rlLock, sleepDur, backoffs, only503,
                   dispatched, disk0, saves, faults, lastSaved, prevRun>>
    /\ UNCHANGED otherVars

Next ==
    \/ Start
    \/ Plan
    \/ StartBatch
    \/ FinishBatch
    \/ EndRun
    \/ NewRun
    \/ \E n \in Nums : SemAcquire(n)
    \/ \E n \in Nums : RateAcquire(n)
    \/ \E n \in Nums : RateWake(n)
    \/ \E n \in Nums : On200(n)
    \/ \E n \in Nums : On404(n)
    \/ \E n \in Nums : On429(n)
    \/ \E n \in Nums : On503(n)
    \/ \E n \in Nums : On302(n)
    \/ \E n \in Nums : OnOtherStatus(n)
    \/ \E n \in Nums : OnException(n)
    \/ \E n \in Nums : Wake(n)

Spec == Init /\ [][Next]_vars

(***************************************************************************)
(* The process is killed, or interrupted by the operator: asyncio.run      *)
(* cancels main and the process exits, nothing is saved on the way out.    *)
(* What the process held in memory is gone, the files stay as they are.    *)
(***************************************************************************)
Killed ==
    /\ mainPc' = "crashed"
    /\ start_num' = 0 /\ end_num' = 0
    /\ checkpoint' = EmptyCheckpoint
    /\ to_download' = <<>> /\ i' = 0
    /\ completed' = {} /\ failed' = <<>> /\ not_found' = <<>>
    /\ stats' = NewStats
    /\ all_proxies' = <<>> /\ chunk_size' = 0 /\ num_chunks' = 0
    /\ current_chunk_index' = 0 /\ counter' = 0
    /\ semaphore' = 0 /\ tokens' = 0 /\ rlLock' = None
    /\ wpc' = [n \in Nums |-> "idle"]
    /\ attempt' = [n \in Nums |-> 0]
    /\ backoff' = [n \in Nums |-> 0]
    /\ proxy' = [n \in Nums |-> None]
    /\ result' = [n \in Nums |-> NoResult]
    /\ finished' = <<>>
    /\ requests' = [n \in Nums |-> 0]
    /\ resp' = [n \in Nums |-> "none"]
    /\ sleepDur' = [n \in Nums |-> 0]
    /\ backoffs' = [n \in Nums |-> 0]
    /\ only503' = [n \in Nums |-> TRUE]
    /\ dispatched' = {}
    /\ saves' = 0
    /\ UNCHANGED <<run, proxyFile, credentials, failedFile, disk0, faults, lastSaved,
                   prevRun,
                   limiterVars, poolObsVars, uploadVars>>

\* Killed anywhere between load_checkpoint and the end of main, outside a
\* write to a file.
Crash ==
    /\ mainPc \in {"loaded", "loop", "batch"}
    /\ Killed
    /\ UNCHANGED <<ckptFile, disk, payload>>

\* Killed inside save_checkpoint: open(CHECKPOINT_FILE, 'w') has truncated
\* the file and json.dump has not written the document yet.
CrashInSave ==
    /\ mainPc = "batch"
    /\ GatherDone
    /\ ckptFile' = Truncated
    /\ Killed
    /\ UNCHANGED <<disk, payload>>

\* Killed inside the write of a response body: aiofiles.open(filepath, 'wb')
\* has created the file and part of the body is written.
CrashInWrite(n) ==
    /\ wpc[n] = "wait"
    /\ \E length \in BodyLengths \ {0} : \E written \in 0..(length - 1) :
          /\ disk' = WriteFile(disk, get_filename(n), written)
          /\ payload' = [payload EXCEPT ![n] = length]
    /\ Killed
    /\ UNCHANGED ckptFile

CrashNext ==
    \/ Next
    \/ Crash
    \/ CrashInSave
    \/ \E n \in Nums : CrashInWrite(n)

CrashSpec == Init /\ [][CrashNext]_vars

(***************************************************************************)
(* The download engine with tasks that end with an exception: a statement  *)
(* outside the try of the loop body raises, in an except handler or in the *)
(* get_proxy call of the next iteration.  The exception leaves the         *)
(* coroutine, "async with semaphore" releases the slot, and gather keeps   *)
(* the exception object as the result of the task.                         *)
(***************************************************************************)
TaskRaises(n) ==
    /\ wpc[n] \in {"pause", "backoff"}
    /\ Fault
    /\ Return(n, "raised", Raised_msg)
    /\ UNCHANGED <<mainVars, stats, fileVars, poolVars, tokens, rlLock, requests,
                   resp, sleepDur, backoffs, only503, dispatched, disk0, saves,
                   lastSaved, prevRun>>
    /\ UNCHANGED otherVars

RaiseNext ==
    \/ Next
    \/ \E n \in Nums : TaskRaises(n)

RaiseSpec == Init /\ [][RaiseNext]_vars

(***************************************************************************)
(* The parts of the download process at rest, for the specifications that  *)
(* follow one component on its own.                                        *)
(***************************************************************************)
MainIdle ==
    /\ run = 1
    /\ mainPc = "off"
    /\ start_num = 0 /\ end_num = 0
    /\ checkpoint = EmptyCheckpoint
    /\ to_download = <<>> /\ i = 0
    /\ completed = {} /\ failed = <<>> /\ not_found = <<>>
    /\ stats = NewStats

TasksIdle ==
    /\ semaphore = 0
    /\ wpc = [n \in Nums |-> "idle"]
    /\ attempt = [n \in Nums |-> 0]
    /\ backoff = [n \in Nums |-> 0]
    /\ proxy = [n \in Nums |-> None]
    /\ result = [n \in Nums |-> NoResult]
    /\ finished = <<>>
    /\ requests = [n \in Nums |-> 0]
    /\ resp = [n \in Nums |-> "none"]
    /\ sleepDur = [n \in Nums |-> 0]
    /\ backoffs = [n \in Nums |-> 0]
    /\ only503 = [n \in Nums |-> TRUE]
    /\ dispatched = {}
    /\ saves = 0

NoPool ==
    /\ proxyFile = <<>>
    /\ all_proxies = <<>> /\ chunk_size = 0 /\ num_chunks = 0
    /\ current_chunk_index = 0 /\ counter = 0

(***************************************************************************)
(* RateLimiter against the clock.  Time is counted in units of 1/rate      *)
(* second, so that elapsed * rate is the number of units elapsed and       *)
(* (1 - tokens) / rate seconds are 1 - tokens units; one second is rate    *)
(* units.  The callers are coroutines that call acquire again and again.   *)
(***************************************************************************)
MaxTime == 3         \* the clock is followed up to MaxTime units
Rates == {1, 2}      \* the rate given to RateLimiter(rate)

LimiterInit ==
    /\ MainIdle /\ TasksIdle /\ NoPool /\ FreshDirectory /\ PoolIdle /\ UploadIdle
    /\ credentials = TRUE
    /\ rate \in Rates
    /\ tokens = rate
    /\ now = 0
    /\ last_update = 0
    /\ rlLock = None
    /\ wakeAt = 0
    /\ lpc = [c \in Callers |-> "idle"]
    /\ admitted = <<>>

limiterFrame == <<mainVars, stats, fileVars, poolVars, semaphore, taskVars, obsVars,
                  payload, poolObsVars, uploadVars, rate>>

\* time.monotonic() advances.
Tick ==
    /\ now < MaxTime
    /\ now' = now + 1
    /\ UNCHANGED <<limiterFrame, tokens, rlLock, last_update, lpc, wakeAt, admitted>>

\* acquire, from taking the lock to its sleep, or to its return when it need
\* not sleep.
TimedAcquire(c) ==
    /\ lpc[c] \in {"idle", "out"}
    /\ rlLock = None
    /\ LET elapsed == now - last_update
           refilled == Min(rate, tokens + elapsed)
       IN  /\ last_update' = now
           /\ IF refilled < 1
              THEN /\ tokens' = refilled
                   /\ wakeAt' = now + (1 - refilled)
                   /\ rlLock' = c
                   /\ lpc' = [lpc EXCEPT ![c] = "sleep"]
                   /\ UNCHANGED admitted
              ELSE /\ tokens' = refilled - 1
                   /\ rlLock' = None
                   /\ lpc' = [lpc EXCEPT ![c] = "out"]
                   /\ admitted' = Append(admitted, now)
                   /\ UNCHANGED wakeAt
    /\ UNCHANGED <<limiterFrame, now>>

\* The sleep of acquire is over: tokens = 0, the lock is released, acquire
\* returns.
TimedWake(c) ==
    /\ lpc[c] = "sleep"
    /\ now >= wakeAt
    /\ tokens' = 0
    /\ rlLock' = None
    /\ lpc' = [lpc EXCEPT ![c] = "out"]
    /\ admitted' = Append(admitted, now)
    /\ UNCHANGED <<limiterFrame, now, last_update, wakeAt>>

LimiterNext ==
    \/ Tick
    \/ \E c \in Callers : TimedAcquire(c)
    \/ \E c \in Callers : TimedWake(c)

LimiterSpec == LimiterInit /\ [][LimiterNext]_vars

(***************************************************************************)
(* ProxyPool on its own: a pool is built from a proxy file and a chunk     *)
(* size, and then advance_chunk and get_proxy are called in any order.     *)
(* get_proxy reads and writes nothing of the task that calls it, and a     *)
(* task is never suspended inside it: _lock is free whenever a task        *)
(* reaches it, since no task awaits while holding it.  The calls of        *)
(* concurrent tasks are therefore single steps, in whatever order the      *)
(* tasks are scheduled.                                                    *)
(***************************************************************************)
MaxProxies == 4      \* lines of the proxy file
MaxChunk == 3        \* the chunk_size given to ProxyPool
MaxServed == 4       \* get_proxy calls followed between two advance_chunk calls

PoolFiles == {[k \in 1..m |-> k] : m \in 0..MaxProxies}
ChunkSizes == 1..MaxChunk

PoolInit ==
    /\ MainIdle /\ TasksIdle /\ FreshDirectory /\ LimiterIdle /\ UploadIdle
    /\ credentials = TRUE
    /\ tokens = 0
    /\ rlLock = None
    /\ proxyFile \in PoolFiles
    /\ all_proxies \in Shuffles(proxyFile)
    /\ chunk_size \in ChunkSizes
    /\ num_chunks = num_chunks_of(all_proxies, chunk_size)
    /\ current_chunk_index = 0
    /\ counter = 0
    /\ poolOp = "init"
    /\ served = <<>>

poolFrame == <<mainVars, stats, fileVars, all_proxies, chunk_size, num_chunks,
               batchVars, taskVars, obsVars, payload, limiterVars, uploadVars>>

\* A call of advance_chunk.
PoolAdvance ==
    /\ advance_chunk
    /\ poolOp' = "advance"
    /\ served' = <<>>
    /\ UNCHANGED poolFrame

\* A call of get_proxy by one of the tasks.
PoolGet ==
    /\ Len(served) < MaxServed
    /\ counter' = get_proxy.counter
    /\ served' = Append(served, get_proxy.proxy)
    /\ poolOp' = "get"
    /\ UNCHANGED <<poolFrame, current_chunk_index>>

PoolNext ==
    \/ PoolAdvance
    \/ PoolGet

PoolSpec == PoolInit /\ [][PoolNext]_vars

(***************************************************************************)
(* The uploader, scripts/upload_to_cdn.py: main, upload_batch and          *)
(* upload_file, with the uploads table of the tracking database.           *)
(* MAX_CONCURRENT_UPLOADS and MAX_RETRIES of scripts/config.py and the     *)
(* batch size are scaled down from 20, 3 and 5000.                         *)
(***************************************************************************)
MAX_CONCURRENT_UPLOADS == 2
config_MAX_RETRIES == 2
upload_batch_size == 3

\* What EXTRACTED_IMAGES may hold: any number of files, and which paths they
\* have makes no difference to the program.
ImageDirs == {1..m : m \in 1..MaxFiles}

\* The uploader is started with an empty tracking database.
UploadProgramInit ==
    /\ MainIdle /\ TasksIdle /\ NoPool /\ FreshDirectory /\ LimiterIdle /\ PoolIdle
    /\ tokens = 0
    /\ rlLock = None
    /\ images \in ImageDirs
    /\ tracking = [f \in Files |-> NoRow]
    /\ files = <<>>
    /\ uI = 0
    /\ uMainPc = "start"
    /\ uSemaphore = 0
    /\ upc = [f \in Files |-> "idle"]
    /\ retry = [f \in Files |-> 0]
    /\ uResult = [f \in Files |-> NoUploadResult]
    /\ uRaisedOnly = [f \in Files |-> TRUE]

UploadInit ==
    /\ UploadProgramInit
    /\ credentials = TRUE

uploadFrame == <<mainPc, start_num, end_num, checkpoint, to_download, i, completed,
                 failed, not_found, stats, fileVars, poolVars, batchVars, taskVars,
                 obsVars, payload, limiterVars, poolObsVars>>

\* The paths of S as a list.
PathList(S) == SelectSeq([k \in 1..MaxFiles |-> k], LAMBDA f : f \in S)

\* get_successful_uploads, collect_files_to_upload and get_pending_uploads.
get_successful_uploads == {f \in Files : tracking[f].status = "success"}

\* collect_files_to_upload without the test against the successful uploads.
collect_files_to_upload_All ==
    LET found == PathList(images)
    IN  [k \in DOMAIN found |-> [local_path |-> found[k], attempts |-> 0]]

collect_files_to_upload ==
    LET found == PathList(images \ get_successful_uploads)
    IN  [k \in DOMAIN found |-> [local_path |-> found[k], attempts |-> 0]]

get_pending_uploads ==
    LET rows == PathList({f \in Files :
                    /\ tracking[f].status \in {"pending", "failed"}
                    /\ tracking[f].attempts < config_MAX_RETRIES})
    IN  [k \in DOMAIN rows |-> [local_path |-> rows[k],
                                attempts |-> tracking[rows[k]].attempts]]

Paths(entries) == {entries[k].local_path : k \in DOMAIN entries}

\* config.validate_bunny_config(): the zone, the key and the CDN host name.
validate_bunny_config == credentials

\* The scanned files followed by every pending row.
files_to_upload_NoCheck == collect_files_to_upload \o get_pending_uploads

\* "Merge, avoiding duplicates" of main: the scanned files, then the pending
\* rows whose path the scan has not given.
files_to_upload ==
    LET scanned == collect_files_to_upload
    IN  scanned \o SelectSeq(get_pending_uploads,
                             LAMBDA e : e.local_path \notin Paths(scanned))

\* main up to the batch loop: the configuration, the scan, the merge with the
\* pending rows, the registration of the paths that have no row.
UploadStart ==
    /\ uMainPc = "start"
    /\ IF ~validate_bunny_config
       THEN /\ uMainPc' = "done"
            /\ UNCHANGED <<files, tracking>>
       ELSE /\ files' = files_to_upload
            /\ IF Len(files_to_upload) = 0
               THEN /\ uMainPc' = "done"
                    /\ UNCHANGED tracking
               ELSE /\ uMainPc' = "loop"
                    /\ tracking' = [f \in Files |->
                          IF f \in Paths(files_to_upload) /\ tracking[f].status = "none"
                          THEN [status |-> "pending", attempts |-> 0, last_error |-> ""]
                          ELSE tracking[f]]
    /\ UNCHANGED <<uploadFrame, run, images, uI, uSemaphore, upc, retry, uResult,
                   uRaisedOnly>>

UploadBatch == SubSeq(files, uI + 1, Min(uI + upload_batch_size, Len(files)))

\* upload_batch up to the wait for its tasks: the semaphore and the tasks.
UploadStartBatch ==
    /\ uMainPc = "loop"
    /\ uI < Len(files)
    /\ uSemaphore' = MAX_CONCURRENT_UPLOADS
    /\ upc' = [f \in Files |-> IF f \in Paths(UploadBatch) THEN "sem" ELSE upc[f]]
    /\ uMainPc' = "batch"
    /\ UNCHANGED <<uploadFrame, run, images, tracking, files, uI, retry, uResult,
                   uRaisedOnly>>

\* The attempts argument of the task of path f.
AttemptArg(f) == (CHOOSE e \in Range(files) : e.local_path = f).attempts

\* A return statement of upload_file: the UploadResult; the semaphore is
\* released.
UReturn(f, success, error, attempts) ==
    /\ uResult' = [uResult EXCEPT ![f] = [success |-> success, error |-> error,
                                          attempts |-> attempts]]
    /\ uSemaphore' = uSemaphore + 1
    /\ retry' = [retry EXCEPT ![f] = 0]
    /\ upc' = [upc EXCEPT ![f] = "done"]

mark_upload_failed(f, error, attempts) ==
    [tracking EXCEPT ![f] =
        IF @.status = "none" THEN @
        ELSE [status |-> "failed", attempts |-> attempts, last_error |-> error]]

mark_upload_success(f) ==
    [tracking EXCEPT ![f] =
        IF @.status = "none" THEN @ ELSE [@ EXCEPT !.status = "success"]]

USemAcquire_NoWait(f) ==
    /\ upc[f] = "sem"
    /\ uSemaphore' = uSemaphore - 1
    /\ retry' = [retry EXCEPT ![f] = 0]
    /\ upc' = [upc EXCEPT ![f] = "put"]
    /\ UNCHANGED <<uploadFrame, run, images, tracking, files, uI, uMainPc, uResult,
                   uRaisedOnly>>

\* "async with semaphore", then the first iteration up to session.put.
USemAcquire(f) ==
    /\ upc[f] = "sem"
    /\ uSemaphore > 0
    /\ uSemaphore' = uSemaphore - 1
    /\ retry' = [retry EXCEPT ![f] = 0]
    /\ upc' = [upc EXCEPT ![f] = "put"]
    /\ UNCHANGED <<uploadFrame, run, images, tracking, files, uI, uMainPc, uResult,
                   uRaisedOnly>>

\* status 200 or 201
UOn2xx(f) ==
    /\ upc[f] = "put"
    /\ tracking' = mark_upload_success(f)
    /\ UReturn(f, TRUE, "", AttemptArg(f) + retry[f])
    /\ uRaisedOnly' = [uRaisedOnly EXCEPT ![f] = TRUE]
    /\ UNCHANGED <<uploadFrame, run, images, files, uI, uMainPc>>

\* status >= 500: sleep, then the next iteration
UOn5xx(f) ==
    /\ upc[f] = "put"
    /\ upc' = [upc EXCEPT ![f] = "sleep"]
    /\ UNCHANGED <<uploadFrame, run, images, tracking, files, uI, uMainPc,
                   uSemaphore, retry, uResult>>
    /\ uRaisedOnly' = [uRaisedOnly EXCEPT ![f] = FALSE]

\* Any other status handled like a server error: sleep, then the next iteration.
UOn4xx_Retried(f) ==
    /\ upc[f] = "put"
    /\ upc' = [upc EXCEPT ![f] = "sleep"]
    /\ UNCHANGED <<uploadFrame, run, images, tracking, files, uI, uMainPc,
                   uSemaphore, retry, uResult>>
    /\ UNCHANGED uRaisedOnly

\* any other status
UOn4xx(f) ==
    /\ upc[f] = "put"
    /\ tracking' = mark_upload_failed(f, "HTTP 4xx", AttemptArg(f) + retry[f])
    /\ UReturn(f, FALSE, "HTTP 4xx", AttemptArg(f) + retry[f])
    /\ uRaisedOnly' = [uRaisedOnly EXCEPT ![f] = TRUE]
    /\ UNCHANGED <<uploadFrame, run, images, files, uI, uMainPc>>

\* Handlers that give up at the first exception.
UOnException_NoRetry(f) ==
    /\ upc[f] = "put"
    /\ tracking' = mark_upload_failed(f, "error", AttemptArg(f) + retry[f])
    /\ UReturn(f, FALSE, "error", AttemptArg(f) + retry[f])
    /\ UNCHANGED uRaisedOnly
    /\ UNCHANGED <<uploadFrame, run, images, files, uI, uMainPc>>

\* asyncio.TimeoutError or any other Exception, from reading the file or
\* from the request: two handlers with the same statements but the text.
UOnException(f) ==
    /\ upc[f] = "put"
    /\ IF retry[f] < config_MAX_RETRIES - 1
       THEN /\ upc' = [upc EXCEPT ![f] = "sleep"]
            /\ UNCHANGED <<tracking, uSemaphore, retry, uResult>>
       ELSE /\ tracking' = mark_upload_failed(f, "error", AttemptArg(f) + retry[f])
            /\ UReturn(f, FALSE, "error", AttemptArg(f) + retry[f])
    /\ UNCHANGED uRaisedOnly
    /\ UNCHANGED <<uploadFrame, run, images, files, uI, uMainPc>>

\* The end of the sleep: the next iteration, or the return after the loop.
UWake(f) ==
    /\ upc[f] = "sleep"
    /\ IF retry[f] + 1 < config_MAX_RETRIES
       THEN /\ retry' = [retry EXCEPT ![f] = @ + 1]
            /\ upc' = [upc EXCEPT ![f] = "put"]
            /\ UNCHANGED <<uSemaphore, uResult, uRaisedOnly>>
       ELSE /\ UReturn(f, FALSE, "Max retries exceeded",
                       AttemptArg(f) + config_MAX_RETRIES)
            /\ uRaisedOnly' = [uRaisedOnly EXCEPT ![f] = TRUE]
    /\ UNCHANGED <<uploadFrame, run, images, tracking, files, uI, uMainPc>>

\* upload_batch has collected every result and returns; main only counts the
\* results and goes to the next batch.
UploadFinishBatch ==
    /\ uMainPc = "batch"
    /\ \A f \in Paths(UploadBatch) : upc[f] = "done"
    /\ uI' = uI + upload_batch_size
    /\ upc' = [f \in Files |-> IF f \in Paths(UploadBatch) THEN "idle" ELSE upc[f]]
    /\ uResult' = [f \in Files |->
                     IF f \in Paths(UploadBatch) THEN NoUploadResult ELSE uResult[f]]
    /\ uRaisedOnly' = [f \in Files |->
                         IF f \in Paths(UploadBatch) THEN TRUE ELSE uRaisedOnly[f]]
    /\ uMainPc' = "loop"
    /\ UNCHANGED <<uploadFrame, run, images, tracking, files, uSemaphore, retry>>

\* After the loop: the summary.
UploadEnd ==
    /\ uMainPc = "loop"
    /\ uI >= Len(files)
    /\ uMainPc' = "done"
    /\ UNCHANGED <<uploadFrame, run, images, tracking, files, uI, uSemaphore, upc,
                   retry, uResult, uRaisedOnly>>

\* The script is invoked again: a new process, the same directory and table.
UploadNewRun ==
    /\ uMainPc = "done"
    /\ run < MaxRuns
    /\ run' = run + 1
    /\ uMainPc' = "start"
    /\ files' = <<>>
    /\ uI' = 0
    /\ uSemaphore' = 0
    /\ upc' = [f \in Files |-> "idle"]
    /\ retry' = [f \in Files |-> 0]
    /\ uResult' = [f \in Files |-> NoUploadResult]
    /\ uRaisedOnly' = [f \in Files |-> TRUE]
    /\ UNCHANGED <<uploadFrame, images, tracking>>

UploadNext ==
    \/ UploadStart
    \/ UploadStartBatch
    \/ UploadFinishBatch
    \/ UploadEnd
    \/ UploadNewRun
    \/ \E f \in Files : USemAcquire(f)
    \/ \E f \in Files : UOn2xx(f)
    \/ \E f \in Files : UOn5xx(f)
    \/ \E f \in Files : UOn4xx(f)
    \/ \E f \in Files : UOnException(f)
    \/ \E f \in Files : UWake(f)

UploadSpec == UploadInit /\ [][UploadNext]_vars

(***************************************************************************)
(* Either program runs: the downloader or the uploader.                    *)
(***************************************************************************)
EnginesInit == Init \/ UploadInit

EnginesNext == Next \/ UploadNext

EnginesSpec == EnginesInit /\ [][EnginesNext]_vars

(***************************************************************************)
(* The downloader under the scheduling of asyncio: a task that can take    *)
(* its next step takes it (the event loop resumes every ready coroutine,   *)
(* a sleep ends, and a network call ends with a response or, after the     *)
(* ClientTimeout of the session, with an exception), and main goes on when *)
(* the gather of the batch is complete.                                    *)
(***************************************************************************)
TaskStep(n) ==
    \/ SemAcquire(n)
    \/ RateAcquire(n)
    \/ RateWake(n)
    \/ On200(n)
    \/ On404(n)
    \/ On429(n)
    \/ On503(n)
    \/ On302(n)
    \/ OnOtherStatus(n)
    \/ OnException(n)
    \/ Wake(n)

FairSpec ==
    /\ Spec
    /\ \A n \in Nums : WF_vars(TaskStep(n))
    /\ WF_vars(FinishBatch)

(***************************************************************************)
(* Either program is started without its mandatory credentials: the        *)
(* downloader when COOKIES has no justiceGovAgeVerified value, the         *)
(* uploader when a BunnyCDN setting is empty; and, next to it, the         *)
(* uploader with its settings in place.                                    *)
(***************************************************************************)
ConfigInit ==
    \/ DownloadInit /\ credentials = FALSE
    \/ UploadProgramInit /\ credentials \in BOOLEAN

ConfigSpec == ConfigInit /\ [][EnginesNext]_vars

(***************************************************************************)
(* Properties                                                              *)
(***************************************************************************)
Batches == (total + batch_size - 1) \div batch_size

InRange == start_num..end_num

NonEmptyAtStart(n) ==
    /\ get_filename(n) \in DOMAIN disk0
    /\ disk0[get_filename(n)] > 0

\* What the run has to fetch: the numbers of the range that are neither in the
\* loaded checkpoint's completed list nor a non-empty file of the directory as
\* it was at startup.
ShouldFetch ==
    {n \in InRange : n \notin Range(checkpoint.completed) /\ ~NonEmptyAtStart(n)}

\* C1: the numbers a run dispatches are exactly those of the range that are
\* not in checkpoint.completed and have no non-empty file on disk at startup;
\* no other number is handed to download_batch or requested from the remote.
C1_DispatchedIsRangeMinusDone ==
    /\ mainPc \in {"loop", "batch", "done"} =>
          /\ dispatched \subseteq ShouldFetch
          /\ \A n \in Nums : requests[n] > 0 => n \in ShouldFetch
    /\ mainPc = "done" => dispatched = ShouldFetch

\* A second run that ends having fetched something, skipped a number because
\* of the checkpoint and skipped another only because of its file.
C1_Witness ==
    /\ mainPc = "done"
    /\ dispatched # {}
    /\ \E n \in InRange : n \in Range(checkpoint.completed)
    /\ \E n \in InRange : n \notin Range(checkpoint.completed) /\ NonEmptyAtStart(n)

\* C2: a task whose network call gives 404 returns not_found in that step and
\* issues no network call afterwards.
C2_NotFoundIsTerminal ==
    [][\A n \in Nums :
          /\ resp'[n] = "404" =>
                /\ wpc'[n] = "done"
                /\ result'[n] = [status |-> "not_found", msg |-> "404"]
          /\ resp[n] = "404" =>
                /\ requests'[n] <= requests[n]
                /\ wpc'[n] \in {"done", "idle"}]_vars

\* A 404 on the first network call of a task.
C2_Witness ==
    \E n \in Nums :
        /\ resp[n] = "404"
        /\ requests[n] = 1
        /\ result[n].status = "not_found"

\* A task that has only seen 503 goes to sleep.
Sleeps503(n) ==
    /\ wpc[n] = "wait"
    /\ wpc'[n] = "backoff"
    /\ only503'[n]

\* What C3 says of a task that gets 503 on every network call: MAX_RETRIES
\* calls, then "failed" for exhausted retries.
ExhaustsOn503 ==
    \A n \in Nums :
        (only503'[n] /\ wpc[n] # "done" /\ wpc'[n] = "done") =>
            /\ requests'[n] = MAX_RETRIES
            /\ result'[n] = [status |-> "failed", msg |-> "Max retries exhausted"]

\* C3 as claimed: MAX_RETRIES calls then failed, and the durations slept,
\* jitter included, never decrease and never exceed MAX_BACKOFF.
C3_SleepsWithJitterNonDecreasing ==
    [][/\ ExhaustsOn503
       /\ \A n \in Nums :
             Sleeps503(n) =>
                /\ sleepDur'[n] >= sleepDur[n]
                /\ sleepDur'[n] <= MAX_BACKOFF]_vars

\* C3, amended: a task that gets 503 on every network call issues exactly
\* MAX_RETRIES calls and then returns failed for exhausted retries; the
\* backoff before jitter never decreases from one sleep to the next and
\* never exceeds MAX_BACKOFF, and each sleep lasts that backoff plus a jitter
\* of at most 2 seconds.
C3_BackoffNonDecreasing ==
    [][/\ ExhaustsOn503
       /\ \A n \in Nums :
             /\ Sleeps503(n) =>
                   /\ sleepDur'[n] >= backoff[n]
                   /\ sleepDur'[n] <= backoff[n] + 2
                   /\ backoff[n] <= MAX_BACKOFF
             /\ (wpc[n] \in {"wait", "backoff"} /\ wpc'[n] \in {"wait", "backoff"}) =>
                   /\ backoff'[n] >= backoff[n]
                   /\ backoff'[n] <= MAX_BACKOFF]_vars

\* A task that ended after MAX_RETRIES calls that all gave 503.
C3_Witness ==
    \E n \in Nums :
        /\ only503[n]
        /\ wpc[n] = "done"
        /\ requests[n] = MAX_RETRIES
        /\ sleepDur[n] > INITIAL_BACKOFF

\* C4: a task whose network call gives 302 returns the cookie-expired result
\* in that step, without the retry bookkeeping or a sleep, and issues no
\* network call afterwards.
C4_ExpiredIsTerminal ==
    [][\A n \in Nums :
          /\ (resp'[n] = "302" /\ resp[n] # "302") =>
                /\ wpc'[n] = "done"
                /\ result'[n] = [status |-> "failed", msg |-> CookieExpired]
                /\ sleepDur'[n] = sleepDur[n]
                /\ stats'.retries = stats.retries
          /\ resp[n] = "302" =>
                /\ requests'[n] <= requests[n]
                /\ wpc'[n] \in {"done", "idle"}]_vars

\* A 302 on the first network call of a task, with iterations left.
C4_Witness ==
    \E n \in Nums :
        /\ resp[n] = "302"
        /\ requests[n] = 1
        /\ requests[n] < MAX_RETRIES
        /\ result[n].msg = CookieExpired

\* C5: a number whose transfer reported the expired cookie is neither in
\* completed nor in failed, in memory and in the saved checkpoint.
C5_ExpiredNotRecordedAsFailed ==
    \A n \in Nums :
        result[n].msg = CookieExpired =>
            /\ n \notin completed
            /\ n \notin Range(failed)
            /\ n \notin Range(JsonLoadList(ckptFile.failed))

WorkerStep ==
    \E n \in Nums :
        \/ SemAcquire(n) \/ RateAcquire(n) \/ RateWake(n)
        \/ On200(n) \/ On404(n) \/ On429(n) \/ On503(n) \/ On302(n)
        \/ OnOtherStatus(n) \/ OnException(n) \/ Wake(n)

SomeExpired == \E n \in Nums : result[n].msg = CookieExpired

\* C6: once a transfer has reported the expired cookie the run goes on: while
\* a task of the batch has not returned some task can take a step, the loop
\* can go on after every batch, and when main ends every batch has been
\* dispatched and saved, with every number of the work list in the saved
\* completed or failed.
C6_RunContinuesAfterExpired ==
    SomeExpired =>
        /\ (mainPc = "batch" /\ ~GatherDone) => ENABLED WorkerStep
        /\ (mainPc = "batch" /\ GatherDone) => ENABLED FinishBatch
        /\ mainPc = "loop" => ENABLED (StartBatch \/ EndRun)
        /\ mainPc = "done" =>
              /\ dispatched = Range(to_download)
              /\ saves = Batches
              /\ Range(to_download) \subseteq
                    lastSaved.completed \cup Range(lastSaved.failed)

\* A finished run of two batches whose first batch had an expired cookie.
C6_Witness ==
    /\ mainPc = "done"
    /\ Batches = 2
    /\ saves = 2
    /\ result[to_download[1]].msg = CookieExpired
    /\ result[to_download[2]].status = "success"

\* C7: in the checkpoint file every number of not_found is in completed.
C7_NotFoundWithinCompleted ==
    Range(JsonLoadList(ckptFile.not_found)) \subseteq
        Range(JsonLoadList(ckptFile.completed))

\* A saved checkpoint with a 404 and a download.
C7_Witness ==
    /\ ckptFile.exists
    /\ Len(ckptFile.not_found) > 0
    /\ Len(ckptFile.completed) > Len(ckptFile.not_found)

\* C8: in the checkpoint file no number is both in failed and in completed.
C8_FailedDisjointFromCompleted ==
    Range(JsonLoadList(ckptFile.failed)) \cap
        Range(JsonLoadList(ckptFile.completed)) = {}

\* A checkpoint saved by a second run, holding failures and completions, when
\* the checkpoint that run loaded held failures too.
C8_Witness ==
    /\ run = 2
    /\ saves > 0
    /\ Len(ckptFile.failed) > 0
    /\ Len(ckptFile.completed) > 0
    /\ Len(checkpoint.failed) > 0

\* C9: what load_checkpoint returns after a save equals, as sets, the three
\* collections given to that save.
C9_SaveLoadRoundTrip ==
    (mainPc = "loaded" /\ lastSaved.saved) =>
        /\ Range(checkpoint.completed) = lastSaved.completed
        /\ Range(checkpoint.failed) = Range(lastSaved.failed)
        /\ Range(checkpoint.not_found) = Range(lastSaved.not_found)

\* A load after a save of three non-empty collections.
C9_Witness ==
    /\ mainPc = "loaded"
    /\ lastSaved.saved
    /\ Cardinality(lastSaved.completed) >= 2
    /\ Len(lastSaved.failed) > 0
    /\ Len(lastSaved.not_found) > 0

\* C10: save_checkpoint runs only when every task of the current batch has
\* returned, and once per batch: the saves of a run are as many as the
\* batches it has finished.
C10_SaveOnlyAtBatchBoundary ==
    /\ [](saves * batch_size = i)
    /\ [][saves' # saves =>
             \/ saves' = 0
             \/ /\ mainPc = "batch"
                /\ \A n \in Range(Batch) : wpc[n] = "done"
                /\ saves' = saves + 1]_vars

\* The second batch in flight, after the one save of the first batch, with a
\* task that has returned and nothing saved for it yet.
C10_Witness ==
    /\ mainPc = "batch"
    /\ saves = 1
    /\ \E n \in Range(Batch) : wpc[n] = "done"
    /\ \A n \in Range(Batch) : n \notin lastSaved.completed

\* C11: the checkpoint file always holds a complete snapshot, and what
\* load_checkpoint returns is what the last completed save_checkpoint was
\* given, also when the process was killed in between.
C11_CrashKeepsLastCheckpoint ==
    /\ ckptFile.exists => ckptFile.complete
    /\ (mainPc = "loaded" /\ lastSaved.saved) =>
          /\ Range(checkpoint.completed) = lastSaved.completed
          /\ Range(checkpoint.failed) = Range(lastSaved.failed)
          /\ Range(checkpoint.not_found) = Range(lastSaved.not_found)

\* C12: a file under its final name holds the whole body of the response it
\* was written from; no state shows a file that holds only part of it.
C12_NoPartialFileVisible ==
    \A n \in Nums :
        get_filename(n) \in DOMAIN disk =>
            disk[get_filename(n)] = payload[n]

\* The acquire calls that returned in the second that starts at time t.
AdmittedIn(t) ==
    {k \in DOMAIN admitted : admitted[k] >= t /\ admitted[k] < t + rate}

\* C13: with more callers than rate, no more than rate calls of acquire
\* return within any one second.
C13_AtMostRatePerSecond ==
    (rate > 0 /\ NumCallers > rate) =>
        \A t \in 0..MaxTime : Cardinality(AdmittedIn(t)) <= rate

\* C14: a step that issues a network call for a task is the step in which
\* that task leaves RateLimiter.acquire; the task holds a slot of the
\* semaphore and the call goes out with the proxy get_proxy has just given.
C14_EveryAttemptAcquiresToken ==
    [][\A n \in Nums :
          requests'[n] = requests[n] + 1 =>
              /\ wpc[n] \in {"rate", "ratesleep"}
              /\ wpc'[n] = "wait"
              /\ semaphore < MAX_CONCURRENT
              /\ proxy'[n] = get_proxy.proxy]_vars

\* C16 as claimed: the pause after a 429 ends with a retry and leaves the
\* attempt counter as it was.
C16_RateLimitedKeepsAttempt ==
    [][\A n \in Nums :
          (wpc[n] = "pause" /\ wpc'[n] # "pause") =>
              /\ wpc'[n] = "wait"
              /\ attempt'[n] = attempt[n]]_vars

\* C16, amended: a 429 consumes one unit of the retry budget.  The task
\* sleeps RATE_LIMIT_PAUSE plus a jitter of at most 5 seconds; when the pause
\* ends the loop goes to its next iteration with the attempt counter advanced
\* and the backoff as it was, or, after the last iteration, the task returns
\* failed for exhausted retries.  Every network call is a counted attempt: a
\* task issues at most MAX_RETRIES calls, 429 responses included.
C16_RateLimitedConsumesAttempt ==
    [][\A n \in Nums :
          /\ (wpc[n] = "wait" /\ wpc'[n] = "pause") =>
                /\ resp'[n] = "429"
                /\ sleepDur'[n] >= RATE_LIMIT_PAUSE
                /\ sleepDur'[n] <= RATE_LIMIT_PAUSE + 5
          /\ (wpc[n] = "pause" /\ wpc'[n] # "pause") =>
                IF attempt[n] + 1 < MAX_RETRIES
                THEN /\ wpc'[n] = "wait"
                     /\ attempt'[n] = attempt[n] + 1
                     /\ backoff'[n] = backoff[n]
                     /\ requests'[n] = requests[n] + 1
                ELSE /\ wpc'[n] = "done"
                     /\ result'[n] = [status |-> "failed",
                                      msg |-> "Max retries exhausted"]
                     /\ requests'[n] = requests[n]
          /\ wpc'[n] = "wait" => requests'[n] = attempt'[n] + 1
          /\ requests'[n] <= MAX_RETRIES]_vars

\* A task that got 429 on its last iteration and returned failed after
\* MAX_RETRIES network calls.
C16_Witness ==
    \E n \in Nums :
        /\ resp[n] = "429"
        /\ wpc[n] = "done"
        /\ requests[n] = MAX_RETRIES
        /\ result[n] = [status |-> "failed", msg |-> "Max retries exhausted"]

\* C17: a call of advance_chunk on a pool with proxies sets the chunk index
\* to (index + 1) mod num_chunks and the counter to zero; on a pool without
\* proxies it changes neither.  It never changes the proxies, the chunk size
\* or the number of chunks.
C17_AdvanceChunk ==
    [][poolOp' = "advance" =>
          /\ IF has_proxies
             THEN /\ current_chunk_index' = (current_chunk_index + 1) % num_chunks
                  /\ counter' = 0
             ELSE /\ current_chunk_index' = current_chunk_index
                  /\ counter' = counter
          /\ UNCHANGED <<all_proxies, chunk_size, num_chunks>>]_vars

\* advance_chunk has just wrapped around to the first of several chunks.
C17_Witness ==
    /\ poolOp = "advance"
    /\ num_chunks >= 2
    /\ current_chunk_index = 0
    /\ counter = 0

\* How often p occurs among s[from], ..., s[from + len - 1].
Occurrences(s, from, len, p) ==
    Cardinality({k \in from..(from + len - 1) : s[k] = p})

\* C18: among the proxies get_proxy returned since the last advance_chunk,
\* any run of as many consecutive calls as the current chunk is long holds
\* every proxy of the chunk exactly once.
C18_RoundRobinOverChunk ==
    has_proxies =>
        LET chunk == _get_current_chunk
            C == Len(chunk)
        IN  \A from \in 1..(Len(served) - C + 1) :
                \A k \in DOMAIN chunk :
                    Occurrences(served, from, C, chunk[k]) = 1

\* More calls than the chunk is long, on a chunk of several proxies: the
\* traversal has started over.
C18_Witness ==
    /\ has_proxies
    /\ Len(_get_current_chunk) >= 2
    /\ Len(served) > Len(_get_current_chunk)
    /\ served[Len(served)] = served[Len(served) - Len(_get_current_chunk)]

\* C19: on a pool without proxies every get_proxy call returns None; on a
\* pool with proxies and a chunk size of at least 1 the chunk index is below
\* num_chunks, the current chunk is not empty, and every get_proxy call
\* returns a proxy of the current chunk.
C19_GetProxyNeverFails ==
    /\ ~has_proxies => \A k \in DOMAIN served : served[k] = None
    /\ (has_proxies /\ chunk_size >= 1) =>
          /\ current_chunk_index \in 0..(num_chunks - 1)
          /\ Len(_get_current_chunk) >= 1
          /\ \A k \in DOMAIN served : served[k] \in Range(_get_current_chunk)

\* get_proxy has returned from a last chunk that is shorter than chunk_size,
\* reached by advance_chunk.
C19_Witness ==
    /\ has_proxies
    /\ poolOp = "get"
    /\ current_chunk_index = num_chunks - 1
    /\ current_chunk_index > 0
    /\ Len(_get_current_chunk) < chunk_size
    /\ Len(served) > Len(_get_current_chunk)

\* The positions of all_proxies (counted from 1) that the slice
\* [c * chunk_size, (c + 1) * chunk_size) covers.
ChunkPositions(c) ==
    {p \in DOMAIN all_proxies : c * chunk_size < p /\ p <= (c + 1) * chunk_size}

\* C20: on a pool with proxies, the slices [i * chunk_size, (i + 1) *
\* chunk_size) for i below num_chunks partition the positions of the proxy
\* list; all of them hold chunk_size proxies but the last, which holds
\* between 1 and chunk_size; num_chunks is the least number of such slices
\* that covers the list; and the current chunk is the slice of the current
\* index.
C20_ChunksPartitionProxies ==
    (has_proxies /\ chunk_size >= 1) =>
        /\ \A p \in DOMAIN all_proxies :
              Cardinality({c \in 0..(num_chunks - 1) : p \in ChunkPositions(c)}) = 1
        /\ \A c \in 0..(num_chunks - 2) :
              Cardinality(ChunkPositions(c)) = chunk_size
        /\ Cardinality(ChunkPositions(num_chunks - 1)) \in 1..chunk_size
        /\ (num_chunks - 1) * chunk_size < Len(all_proxies)
        /\ Len(all_proxies) <= num_chunks * chunk_size
        /\ _get_current_chunk =
              [k \in 1..Cardinality(ChunkPositions(current_chunk_index)) |->
                  all_proxies[current_chunk_index * chunk_size + k]]

\* Several chunks, the last one short and current.
C20_Witness ==
    /\ has_proxies
    /\ num_chunks >= 2
    /\ Len(all_proxies) % chunk_size # 0
    /\ current_chunk_index = num_chunks - 1
    /\ poolOp = "advance"

\* The tasks inside "async with semaphore" of either program.
Downloading == {n \in Nums : wpc[n] \in {"rate", "ratesleep", "wait", "pause", "backoff"}}

Uploading == {f \in Files : upc[f] \in {"put", "sleep"}}

\* C15: in the downloader and in the uploader alike, the number of transfers
\* that hold the concurrency slot of their batch never exceeds MAX_CONCURRENT,
\* respectively MAX_CONCURRENT_UPLOADS, whatever the batch and the interleaving.
C15_InFlightWithinLimit ==
    /\ Cardinality(Downloading) <= MAX_CONCURRENT
    /\ Cardinality(Uploading) <= MAX_CONCURRENT_UPLOADS

\* Every slot of an upload batch is held and another task of the batch waits.
C15_Witness ==
    /\ uMainPc = "batch"
    /\ Cardinality(Uploading) = MAX_CONCURRENT_UPLOADS
    /\ \E f \in Files : upc[f] = "sem"
    /\ uSemaphore = 0

RECURSIVE Pow2(_)
Pow2(k) == IF k = 0 THEN 1 ELSE 2 * Pow2(k - 1)

\* min(INITIAL_BACKOFF * 2^k, MAX_BACKOFF)
ExpBackoff(k) == Min(INITIAL_BACKOFF * Pow2(k), MAX_BACKOFF)

\* The task sleeps after an unexpected status, a timeout or a connection error.
SleepsOnTransient(n) == wpc[n] = "backoff" /\ resp[n] \in {"other", "error"}

\* C21: an unexpected status, a timeout or a connection error is handled as a
\* 503 is: the network call is a counted attempt, and the task sleeps
\* min(INITIAL_BACKOFF * 2^k, MAX_BACKOFF) plus the jitter of the 503 case, k
\* being the number of its earlier backoff sleeps; every jitter that can
\* follow a 503 can follow these.
C21_TransientSleepsLikeOverload ==
    \A n \in Nums :
        /\ wpc[n] = "wait" => (requests[n] = attempt[n] + 1 /\ requests[n] <= MAX_RETRIES)
        /\ SleepsOnTransient(n) =>
              /\ sleepDur[n] >= ExpBackoff(backoffs[n] - 1)
              /\ sleepDur[n] <= ExpBackoff(backoffs[n] - 1) + 2
        /\ (wpc[n] = "wait" /\ ENABLED On503(n)) =>
              \A jitter \in Jitter503 :
                  /\ ENABLED (OnOtherStatus(n)
                                /\ sleepDur'[n] = ExpBackoff(backoffs[n]) + jitter)
                  /\ ENABLED (OnException(n)
                                /\ sleepDur'[n] = ExpBackoff(backoffs[n]) + jitter)

\* The run has ended and every network call it made was answered 200 and its
\* body written: nothing was retried, found absent or failed.
EndedClean ==
    /\ mainPc = "done"
    /\ stats.retries = 0
    /\ failed = <<>>
    /\ not_found = <<>>

\* The files the run found in the directory hold the whole body they were
\* written from.
WholeFilesAtStart ==
    \A n \in Nums : NonEmptyAtStart(n) => disk0[get_filename(n)] = payload[n]

\* C22 as claimed: when the remote answers 2xx for every requested item, then
\* whatever the range and the items already on disk, the run ends with every
\* number of the range in the completed list of the checkpoint file and with
\* an empty failed list there.
C22_AllOkCompletesRange ==
    (EndedClean /\ WholeFilesAtStart) =>
        /\ InRange \subseteq Range(JsonLoadList(ckptFile.completed))
        /\ Len(ckptFile.failed) = 0

\* C22, amended: the same, for a run that has something to fetch; a run that
\* finds every number of the range in the loaded checkpoint or on disk ends
\* without a save_checkpoint call.
C22_AllOkCompletesRangeWhenDispatched ==
    EndedClean =>
        IF total > 0
        THEN /\ ckptFile.complete
             /\ InRange \subseteq Range(JsonLoadList(ckptFile.completed))
             /\ Len(ckptFile.failed) = 0
        ELSE /\ saves = 0
             /\ \A n \in InRange :
                   n \in Range(checkpoint.completed) \/ NonEmptyAtStart(n)

\* A second run that ended clean after fetching something, over a range with
\* a number that the checkpoint it loaded did not hold and the disk did.
C22_Witness ==
    /\ EndedClean
    /\ total > 0
    /\ \E n \in InRange :
          n \notin Range(checkpoint.completed) /\ NonEmptyAtStart(n)

LastAttemptOk(n) ==
    /\ wpc[n] = "wait"
    /\ only503[n]
    /\ requests[n] = MAX_RETRIES
    /\ resp'[n] = "200"
    /\ wpc'[n] = "done"

\* C24: a number that gets 503 on its first MAX_RETRIES - 1 network calls and
\* 200 on the last one returns success after MAX_RETRIES - 1 backoff sleeps,
\* each of which has added one to the retry counter and the 200 nothing; the
\* number then goes to completed, not to failed, in memory and in the
\* checkpoint saved for its batch.
C24_SucceedsOnLastAttempt ==
    [][/\ \A n \in Nums :
            /\ Sleeps503(n) => stats'.retries = stats.retries + 1
            /\ LastAttemptOk(n) =>
                  /\ result'[n].status = "success"
                  /\ backoffs[n] = MAX_RETRIES - 1
                  /\ stats'.retries = stats.retries
       /\ (mainPc = "batch" /\ mainPc' = "loop") =>
            \A n \in Range(Batch) :
                result[n].status = "success" =>
                    /\ n \in completed'
                    /\ n \notin Range(failed')
                    /\ n \in Range(JsonLoadList(ckptFile'.completed))
                    /\ n \notin Range(JsonLoadList(ckptFile'.failed))]_vars

\* A task that returned success on its last iteration, after sleeps that
\* followed a 503.
C24_Witness ==
    \E n \in Nums :
        /\ wpc[n] = "done"
        /\ result[n].status = "success"
        /\ resp[n] = "200"
        /\ requests[n] = MAX_RETRIES
        /\ backoffs[n] = MAX_RETRIES - 1
        /\ sleepDur[n] = INITIAL_BACKOFF * Pow2(MAX_RETRIES - 2) + 2

\* Nothing of the uploader has run: no task, no row in the uploads table.
NoUploadBegun ==
    /\ \A f \in Files : upc[f] = "idle" /\ tracking[f] = NoRow
    /\ files = <<>>

\* C25: when the mandatory credentials are missing the run does not begin:
\* no transfer is dispatched, no network call is issued, and the checkpoint
\* file and the uploads table stay as they were.
C25_NoRunWithoutCredentials ==
    ~credentials =>
        /\ dispatched = {}
        /\ \A n \in Nums : wpc[n] = "idle" /\ requests[n] = 0
        /\ ckptFile = NoFile
        /\ NoUploadBegun

\* A list without two equal elements.
NoDuplicates(s) == \A j, k \in DOMAIN s : s[j] = s[k] => j = k

\* The paths of a work list of the uploader, position by position.
PathsOf(entries) == [k \in DOMAIN entries |-> entries[k].local_path]

\* The positions of the work list whose task is in flight.
DownloadsInFlightOf(n) ==
    {k \in DOMAIN to_download : to_download[k] = n /\ n \in Downloading}

UploadsInFlightOf(f) ==
    {k \in DOMAIN files : files[k].local_path = f /\ f \in Uploading}

\* C26: within a run the work list holds each item at most once: each file
\* number in to_download, each local path in the merge of the scanned files
\* with the pending rows; so at most one transfer is in flight for any
\* destination file and for any tracking row.
C26_NoDuplicateWorkItems ==
    /\ NoDuplicates(to_download)
    /\ NoDuplicates(PathsOf(files))
    /\ \A n \in Nums : Cardinality(DownloadsInFlightOf(n)) <= 1
    /\ \A f \in Files : Cardinality(UploadsInFlightOf(f)) <= 1

\* A later run of the uploader has a path in flight that both the scan and
\* the pending rows gave.
C26_Witness ==
    /\ run > 1
    /\ uMainPc = "batch"
    /\ \E f \in Uploading :
          /\ f \in images
          /\ tracking[f].status = "failed"
          /\ tracking[f].attempts < config_MAX_RETRIES
          /\ Cardinality(UploadsInFlightOf(f)) = 1

\* The run was started after a run over the same range had ended.
RerunOfSameRange ==
    /\ prevRun.ended
    /\ prevRun.range = <<start_num, end_num>>

\* C27: after a run over a range has completed, a re-invocation over the same
\* range has in its work list exactly the numbers that ended the first run as
\* failed, after the retries or with an expired cookie, and no others.
C27_RerunDispatchesFailedOnly ==
    [][(mainPc = "loaded" /\ mainPc' # "loaded" /\ RerunOfSameRange) =>
          Range(to_download') = prevRun.failed]_vars

Succeeded(f) == tracking[f].status = "success"

\* C28: an upload recorded with status success is never uploaded again and
\* its row never changes: no step alters the row, the work list built by a
\* later run leaves the path out, and no task for the path is waiting for a
\* slot, issuing a PUT or sleeping before one.
C28_SuccessIsFinal ==
    /\ [](\A f \in Files : Succeeded(f) => upc[f] \in {"idle", "done"})
    /\ [][\A f \in Files :
             Succeeded(f) =>
                 /\ tracking'[f] = tracking[f]
                 /\ (uMainPc = "start" /\ uMainPc' # "start") =>
                        f \notin Paths(files')]_vars

\* A later run of the uploader works on a list that leaves out a file of the
\* directory uploaded with success before, and has a task at its PUT.
C28_Witness ==
    /\ run > 1
    /\ uMainPc = "batch"
    /\ \E f \in images : Succeeded(f) /\ f \notin Paths(files)
    /\ \E f \in Files : upc[f] = "put"

\* The balance of the bucket refilled for the time elapsed since last_update,
\* as acquire computes it.
Balance == Min(rate, tokens + (now - last_update))

\* A call of acquire returns.
AcquireReturns == Len(admitted') = Len(admitted) + 1

\* C29: the token balance stays in range, 0 <= tokens <= rate, whatever the
\* interleaving of the acquire calls; and acquire returns only when the
\* balance refilled for the elapsed time has reached one token, and its
\* return takes exactly one token from that balance.
C29_TokensInRangeAndOneConsumed ==
    /\ [](0 <= tokens /\ tokens <= rate)
    /\ [][AcquireReturns => (Balance >= 1 /\ Balance' = Balance - 1)]_vars

Terminal == {"success", "not_found", "failed"}

\* C30: every transfer ends after at most MAX_RETRIES network calls, whatever
\* the remote answers (429 on every call included), with exactly one of
\* success, not_found and failed; and so every batch ends, with one such
\* outcome for each of its items.
C30_TransferTerminates ==
    /\ [](\A n \in Nums :
             /\ requests[n] <= MAX_RETRIES
             /\ wpc[n] = "done" => result[n].status \in Terminal)
    /\ [][(mainPc = "batch" /\ mainPc' = "loop") =>
             \A n \in Range(Batch) : result[n].status \in Terminal]_vars
    /\ \A n \in Nums : (wpc[n] = "sem") ~> (wpc[n] = "done")
    /\ (mainPc = "batch") ~> (mainPc = "loop")

\* A transfer has ended as failed after MAX_RETRIES network calls that were
\* all answered 429.
C30_Witness ==
    \E n \in Nums :
        /\ wpc[n] = "done"
        /\ result[n].status = "failed"
        /\ requests[n] = MAX_RETRIES
        /\ resp[n] = "429"
        /\ backoffs[n] = 0

\* The entries of download_batch's result list that carry the number n.
EntriesOf(n) == {k \in DOMAIN Processed : Processed[k].num = n}

\* What the task of n ended with, as download_batch has to report it.
OutcomeOf(n) == IF result[n].status = "raised" THEN "failed" ELSE result[n].status

\* C31: the result list of a batch has exactly one entry for each dispatched
\* item, with that item's number and that item's own outcome, whatever the
\* order in which the transfers ended, a task that raised included.
C31_OneResultPerItem ==
    (mainPc = "batch" /\ GatherDone) =>
        /\ Len(Processed) = Len(Batch)
        /\ \A n \in Range(Batch) :
              /\ Cardinality(EntriesOf(n)) = 1
              /\ \A k \in EntriesOf(n) : Processed[k].status = OutcomeOf(n)

\* A batch of two whose second transfer ended first, with success, and whose
\* first transfer raised.
C31_Witness ==
    /\ mainPc = "batch"
    /\ GatherDone
    /\ Len(Batch) = 2
    /\ finished = <<Batch[2], Batch[1]>>
    /\ result[Batch[1]].status = "raised"
    /\ result[Batch[2]].status = "success"

\* A step of main from the top of the loop into a batch.
BatchBegins == mainPc = "loop" /\ mainPc' = "batch"

\* C32: all identities used by the transfers of one batch come from a single
\* chunk: the proxy of a transfer in flight is one of the current chunk, the
\* chunk changes only where main starts a batch, with no transfer in flight,
\* and each batch takes the chunk after that of the batch before it, modulo
\* num_chunks.
C32_OneChunkPerBatch ==
    /\ [](\A n \in Nums :
             (wpc[n] = "wait" /\ has_proxies) =>
                 proxy[n] \in Range(_get_current_chunk))
    /\ [][/\ BatchBegins =>
                /\ \A n \in Nums : wpc[n] = "idle"
                /\ current_chunk_index' =
                      IF has_proxies THEN (current_chunk_index + 1) % num_chunks
                      ELSE current_chunk_index
          /\ (~BatchBegins /\ run' = run) =>
                current_chunk_index' = current_chunk_index]_vars

\* A transfer of the second batch is in flight with the proxy of the chunk
\* that follows, around the end of the list, the chunk of the first batch.
C32_Witness ==
    /\ mainPc = "batch"
    /\ i = batch_size
    /\ num_chunks = 2
    /\ current_chunk_index = 0
    /\ \E n \in Range(Batch) :
          wpc[n] = "wait" /\ proxy[n] = all_proxies[1]

\* The items of the run whose batch is over: each has its terminal outcome.
Settled == Min(i, total)

\* C33: after every batch stats.success + stats.failed + stats.skipped_404 is
\* the number of items that have reached a terminal outcome so far, and
\* stats.failed is the length of the failed list, for every mix of outcomes.
C33_StatsAgreeWithBookkeeping ==
    mainPc \in {"loop", "done"} =>
        /\ stats.success + stats.failed + stats.skipped_404 = Settled
        /\ stats.failed = Len(failed)

\* The file of n holds the whole body of the last 200 response for n.
WholeOnDisk(n) ==
    /\ get_filename(n) \in DOMAIN disk
    /\ payload[n] # NoPayload
    /\ disk[get_filename(n)] = payload[n]

\* C34: resume is sound: every item of the range that a run leaves out of its
\* work list, as found in the checkpoint's completed list or on disk with a
\* size above zero, ended an earlier run as a success with its whole payload
\* written or as not found; an item whose transfer was interrupted or failed
\* part-way is not left out.
C34_ResumeIsSound ==
    [][(mainPc = "loaded" /\ mainPc' \in {"loop", "done"}) =>
          \A n \in InRange \ Range(to_download') :
              n \in prevRun.absent \/ WholeOnDisk(n)]_vars

\* The not_found list of the checkpoint file, as a set.
SavedNotFound(file) == Range(JsonLoadList(file.not_found))

\* save_checkpoint has written the file.
CheckpointSaved == mainPc = "batch" /\ mainPc' = "loop"

\* C35: the not_found set recorded in the checkpoint only grows across saves,
\* within a run and across successive runs: a number saved as not_found by
\* one save is in not_found after every later save.
C35_SavedNotFoundOnlyGrows ==
    [][CheckpointSaved => SavedNotFound(ckptFile) \subseteq SavedNotFound(ckptFile')]_vars

\* CHECKPOINT_FILE is missing or does not hold a JSON document.
Unreadable == ~ckptFile.exists \/ ~ckptFile.complete

\* C36: load_checkpoint never fails: when the checkpoint file is missing or
\* cannot be parsed, main gets the empty state from it and goes on, the work
\* list is the range less the files found by the disk scan, and the file is
\* left as it was.
C36_UnreadableCheckpointIsEmpty ==
    /\ [](mainPc = "start" => ENABLED Start)
    /\ [][/\ (mainPc = "start" /\ mainPc' = "loaded" /\ Unreadable) =>
                /\ checkpoint' = EmptyCheckpoint
                /\ ckptFile' = ckptFile
          /\ (mainPc = "loaded" /\ mainPc' \in {"loop", "done"} /\ Unreadable) =>
                /\ Range(to_download') = InRange \ get_downloaded_files
                /\ ckptFile' = ckptFile]_vars

\* A later run has loaded a checkpoint file that holds no document, has found
\* files of its range on disk and has something left to fetch.
C36_Witness ==
    /\ run > 1
    /\ mainPc = "loop"
    /\ ckptFile.exists /\ ~ckptFile.complete
    /\ checkpoint = EmptyCheckpoint
    /\ InRange \cap get_downloaded_files # {}
    /\ Range(to_download) = InRange \ get_downloaded_files

\* C37: an upload that gets a client-error status, one that is neither 200
\* or 201 nor 500 or above, is not retried: the task ends with that attempt
\* with success = False, and its tracking row has status failed with the
\* error and the attempt count of that attempt.
C37_ClientErrorNotRetried ==
    [][\A f \in Files :
          UOn4xx(f) =>
              /\ upc'[f] = "done"
              /\ uResult'[f].success = FALSE
              /\ uResult'[f].error = "HTTP 4xx"
              /\ tracking'[f] = [status |-> "failed",
                                 attempts |-> AttemptArg(f) + retry[f],
                                 last_error |-> "HTTP 4xx"]]_vars

\* A task has ended on a client error at its second attempt, after a server
\* error at the first.
C37_Witness ==
    \E f \in Files :
        /\ upc[f] = "done"
        /\ uResult[f].error = "HTTP 4xx"
        /\ uResult[f].attempts = 1
        /\ tracking[f].status = "failed"
        /\ tracking[f].last_error = "HTTP 4xx"

\* The attempts the task of f has made in this run, the current one included.
AttemptsMade(f) == retry[f] + 1

\* C38: an upload that times out or raises on every attempt makes exactly
\* config.MAX_RETRIES attempts within one run and is then marked failed in
\* the tracking database; an exception at an earlier attempt leaves the row
\* as it is and the task goes on to the next attempt.
C38_ExceptionsUseAllAttempts ==
    /\ [](\A f \in Files : upc[f] \in {"put", "sleep"} =>
                              AttemptsMade(f) <= config_MAX_RETRIES)
    /\ [][\A f \in Files :
             UOnException(f) =>
                 IF AttemptsMade(f) < config_MAX_RETRIES
                 THEN /\ tracking'[f] = tracking[f]
                      /\ upc'[f] = "sleep"
                 ELSE /\ AttemptsMade(f) = config_MAX_RETRIES
                      /\ upc'[f] = "done"
                      /\ uResult'[f].success = FALSE
                      /\ tracking'[f].status = "failed"
                      /\ tracking'[f].last_error = "error"]_vars

\* A task whose attempts all raised has ended on the exception of the last
\* one, and its row is marked failed with the count of that attempt.
C38_Witness ==
    \E f \in Files :
        /\ upc[f] = "done"
        /\ uResult[f].error = "error"
        /\ uRaisedOnly[f]
        /\ uResult[f].attempts = AttemptArg(f) + config_MAX_RETRIES - 1
        /\ tracking[f].status = "failed"
        /\ tracking[f].attempts = AttemptArg(f) + config_MAX_RETRIES - 1

\* C39: every upload that has ended with success = False has its tracking
\* row at status failed with the error and the attempt count of its result,
\* whatever the responses were, a server error at every attempt included.
C39_FailedUploadIsRecorded ==
    \A f \in Files :
        (upc[f] = "done" /\ ~uResult[f].success) =>
            /\ tracking[f].status = "failed"
            /\ tracking[f].last_error = uResult[f].error
            /\ tracking[f].attempts = uResult[f].attempts

\* The task of f ends in this step with success = False.
EndsFailed(f) ==
    /\ upc[f] # "done"
    /\ upc'[f] = "done"
    /\ ~uResult'[f].success

\* C40: the retry cap across runs. A path whose tracking row records
\* config.MAX_RETRIES attempts or more is not in the work list of a later
\* run, and when an upload fails again whose row an earlier run has left
\* failed below the cap, the attempts of the row are more than they were.
C40_RetryCapAcrossRuns ==
    /\ [][\A f \in Files :
             (/\ uMainPc = "start"
              /\ uMainPc' # "start"
              /\ tracking[f].attempts >= config_MAX_RETRIES) =>
                 f \notin Paths(files')]_vars
    /\ [][\A f \in Files :
             (/\ EndsFailed(f)
              /\ tracking[f].status = "failed"
              /\ tracking[f].attempts < config_MAX_RETRIES) =>
                 tracking'[f].attempts > tracking[f].attempts]_vars
====
